---- MODULE Spec2Model ----
(***************************************************************************)
(* A model of httm's core: path deconstruction (data/paths.rs), version    *)
(* lookup and the auto-mount of network volumes (lookup/versions.rs),      *)
(* deleted-file discovery (deleted.rs) and the recursive enumerator with   *)
(* its directory filter (exec/recursive.rs, interactive/browse.rs).        *)
(*                                                                         *)
(* A path is a sequence of component names; the root "/" is <<>>.          *)
(***************************************************************************)
EXTENDS Integers, Sequences, FiniteSets, TLC

VARIABLES
    \* ---- path deconstruction (data/paths.rs)
    path_buf,          \* PathData.path_buf of the path under lookup
    map_of_datasets,   \* keys of GLOBAL_CONFIG.dataset_collection.map_of_datasets
    prox,              \* result of PathData::proximate_dataset, or Pending
    \* ---- deleted discovery (deleted.rs)
    live_names,        \* file names read from the requested directory
    opt_alt_replicated,\* config.opt_alt_replicated
    alt_replicated,    \* search dirs of the alternate replicas (0 or 1 dataset)
    most_immediate,    \* search dirs of the proximate dataset
    unique_deleted,    \* result of get_unique_deleted, or Pending
    \* ---- version lookup (lookup/versions.rs)
    path_set,          \* the PathData given to VersionsMap::new
    map_of_snaps,      \* dataset_collection.map_of_snaps: mount -> snapshot mounts
    map_of_alts,       \* dataset_collection.opt_map_of_alts: mount -> alternates
    map_of_aliases,    \* dataset_collection.opt_map_of_aliases: dir -> remote_dir
    snap_files,        \* what symlink_metadata finds at each candidate path
    opt_omit_ditto,    \* config.opt_omit_ditto
    opt_last_snap,     \* config.opt_last_snap
    is_interactive_mode, \* GLOBAL_CONFIG.exec_mode is Interactive
    versions_map,      \* per uniqueness mode: result of VersionsMap::new, or Pending
    \* ---- recursive enumeration (exec/recursive.rs, interactive/browse.rs)
    live_tree,         \* what read_dir and the deleted lookup find in each directory
    snap_tree,         \* what read_dir finds in each directory of a snapshot
    deleted_mode,      \* config.deleted_mode
    opt_recursive,     \* config.opt_recursive
    opt_no_filter,     \* config.opt_no_filter
    opt_common_snap_dir, \* dataset_collection.opt_common_snap_dir: <<>> or <<dir>>
    vec_of_filter_dirs,  \* dataset_collection.vec_of_filter_dirs, as a set
    opt_requested_dir, \* config.opt_requested_dir.path_buf
    queue,             \* the VecDeque of iterative_enumeration
    background,        \* where the background thread stands in recursive_exec
    deleted_scope,     \* directories whose spawned enumerate_deleted has not run yet
    rx_item,           \* the items sent on skim_tx_item, in order
    rx_item_alive,     \* the receiver of the item channel is not dropped
    hangup_tx_alive,   \* the sender of the hangup channel is not dropped
    view,              \* where InteractiveBrowse::view stands
    process,           \* "running", or how the process exited
    popped,            \* history: the directories enumerate_live was called on
    spawned,           \* history: the directories spawn_deleted spawned a task for
    at_hangup,         \* history: popped and spawned when hangup_tx was dropped
    \* ---- the directory filter applied to one entry (exec/recursive.rs)
    entry,             \* the path of a BasicDirEntryInfo of file type directory
    filtered,          \* result of is_filter_dir for it, or Pending
    \* ---- auto-mount of network volumes by concurrent lookups (lookup/versions.rs)
    link_type,         \* map_of_datasets: mount -> md.link_type
    dataset_of_interest, \* per lookup thread: self.dataset_of_interest
    pc,                \* per lookup thread: its position in versions_unprocessed
    next_mount,        \* per lookup thread: index of the next snap mount to visit
    CACHE_RESULT,      \* the memo set: how often each dataset was inserted
    read_dirs,         \* history: the snap mounts read_dir was called on, in order
    stats,             \* history: the candidates symlink_metadata was called on
    \* ---- the live path of a snapshot path (data/paths.rs)
    snap_path,         \* ZfsSnapPathGuard.inner.path_buf
    live_path,         \* result of ZfsSnapPathGuard::new and live_path, or Pending
    \* ---- interactive restore (exec/interactive.rs)
    restore_mode,      \* GLOBAL_CONFIG.exec_mode: the RestoreMode
    snap_path_strings, \* select_result.snap_path_strings: the files selected
    restore_index,     \* the element of snap_path_strings that restore is called on
    restore_pc,        \* position in InteractiveRestore::exec and restore
    consents,          \* history: the answers of the consent prompt, per file
    copies,            \* history: the calls of Copy::recursive
    \* ---- the comparator of versions by contents (data/paths.rs)
    containers,        \* three CompareContentsContainer: size, mtime, hash
    orderings,         \* the results of cmp on each pair of them, or Pending
    \* ---- dataset detection from the command line (lookup.rs)
    parent_folder,     \* the parent of pathdata.path_buf as a string
    datasets_from_zfs, \* the lines printed by zfs list
    best_potential_mountpoint  \* result of get_dataset, or Pending

pathVars == <<path_buf, map_of_datasets, prox>>
delVars == <<live_names, opt_alt_replicated, alt_replicated, most_immediate,
             unique_deleted>>

verInputs == <<path_set, map_of_snaps, map_of_alts, map_of_aliases, snap_files,
               opt_omit_ditto, opt_last_snap, is_interactive_mode>>
verVars == <<verInputs, versions_map>>

recInputs == <<live_tree, snap_tree, deleted_mode, opt_recursive, opt_no_filter,
               opt_common_snap_dir, vec_of_filter_dirs, opt_requested_dir>>
recVars == <<recInputs, queue, background, deleted_scope, rx_item, rx_item_alive,
             hangup_tx_alive, view, process, popped, spawned, at_hangup>>

filterVars == <<entry, filtered>>
mountVars == <<link_type, dataset_of_interest, pc, next_mount, CACHE_RESULT, read_dirs,
               stats>>
guardVars == <<snap_path, live_path>>
restoreVars == <<restore_mode, snap_path_strings, restore_index, restore_pc, consents,
                 copies>>
cmpVars == <<containers, orderings>>
datasetVars == <<parent_folder, datasets_from_zfs, best_potential_mountpoint>>
lateVars == <<restoreVars, cmpVars, datasetVars>>

vars == <<pathVars, delVars, verVars, recVars, filterVars, mountVars, guardVars, lateVars>>

notPathVars == <<delVars, verVars, recVars, filterVars, mountVars, guardVars, lateVars>>
notDelVars == <<pathVars, verVars, recVars, filterVars, mountVars, guardVars, lateVars>>
notVerVars == <<path_buf, prox, delVars, recVars, filterVars, mountVars, guardVars, lateVars>>
notRecVars == <<pathVars, delVars, verVars, filterVars, mountVars, guardVars, lateVars>>

UniquenessModes == {"All", "UniqueMetadata", "UniqueContents"}

Pending == [kind |-> "Pending"]

\* the values of a subsystem's variables while another subsystem is checked
IdlePaths == path_buf = <<>> /\ map_of_datasets = {} /\ prox = Pending

IdleDeleted ==
    /\ live_names = {}
    /\ opt_alt_replicated = FALSE
    /\ alt_replicated = <<>>
    /\ most_immediate = <<>>
    /\ unique_deleted = Pending

IdleVersions ==
    /\ path_set = <<>>
    /\ map_of_snaps = <<>>
    /\ map_of_alts = <<>>
    /\ map_of_aliases = <<>>
    /\ snap_files = <<>>
    /\ opt_omit_ditto = FALSE
    /\ opt_last_snap = "None"
    /\ is_interactive_mode = FALSE
    /\ versions_map = [u \in UniquenessModes |-> Pending]

IdleRecursive ==
    /\ live_tree = <<>>
    /\ snap_tree = <<>>
    /\ deleted_mode = "Disabled"
    /\ opt_recursive = FALSE
    /\ opt_no_filter = FALSE
    /\ opt_common_snap_dir = <<>>
    /\ vec_of_filter_dirs = {}
    /\ opt_requested_dir = <<>>
    /\ queue = <<>>
    /\ background = "idle"
    /\ deleted_scope = {}
    /\ rx_item = <<>>
    /\ rx_item_alive = FALSE
    /\ hangup_tx_alive = FALSE
    /\ view = "idle"
    /\ process = "running"
    /\ popped = <<>>
    /\ spawned = <<>>
    /\ at_hangup = Pending

IdleFilter == entry = <<>> /\ filtered = Pending

IdleMount ==
    /\ link_type = <<>>
    /\ dataset_of_interest = <<>>
    /\ pc = <<>>
    /\ next_mount = <<>>
    /\ CACHE_RESULT = <<>>
    /\ read_dirs = <<>>
    /\ stats = <<>>

IdleGuard == snap_path = <<>> /\ live_path = Pending

\* the subsystems that take no part in a lookup or in the enumeration
IdleRestore ==
    /\ restore_mode = "CopyOnly"
    /\ snap_path_strings = <<>>
    /\ restore_index = 0
    /\ restore_pc = "idle"
    /\ consents = <<>>
    /\ copies = <<>>

IdleCmp == containers = <<>> /\ orderings = Pending

IdleDataset ==
    /\ parent_folder = <<>>
    /\ datasets_from_zfs = <<>>
    /\ best_potential_mountpoint = Pending

IdleLate == IdleRestore /\ IdleCmp /\ IdleDataset

IdleRest == IdleFilter /\ IdleMount /\ IdleGuard /\ IdleLate

(***************************************************************************)
(* Generic helpers on sequences.                                           *)
(***************************************************************************)
Range(s) == {s[i] : i \in DOMAIN s}

SeqsUpTo(S, n) == UNION {[1..k -> S] : k \in 0..n}

IsPrefix(p, q) == Len(p) <= Len(q) /\ SubSeq(q, 1, Len(p)) = p

MaxOf(S) == CHOOSE x \in S : \A y \in S : y <= x

(***************************************************************************)
(* data/paths.rs                                                           *)
(***************************************************************************)
\* Path::ancestors(): the path itself, then each parent, down to the root
ancestors(p) == [i \in 1..(Len(p) + 1) |-> SubSeq(p, 1, Len(p) + 1 - i)]

\* Path::components().count() of an absolute path: RootDir plus one per name
components_count(p) == Len(p) + 1

\* MaxLen::max_len() of the dataset map: the greatest component count of a key
max_len(keys) ==
    IF keys = {} THEN 0 ELSE MaxOf({components_count(k) : k \in keys})

DATASET_MAX_LEN(keys) == max_len(keys)

\* Iterator::skip_while over a sequence: the index of the first element for
\* which the predicate is false (Len + 1 when there is none)
RECURSIVE SkipWhileCount(_, _, _)
SkipWhileCount(s, i, limit) ==
    IF i > Len(s) THEN i
    ELSE IF components_count(s[i]) > limit
         THEN SkipWhileCount(s, i + 1, limit)
         ELSE i

\* Iterator::find over s[from..]: index of the first key of the map, 0 if none
RECURSIVE FindKey(_, _, _)
FindKey(s, from, keys) ==
    IF from > Len(s) THEN 0
    ELSE IF s[from] \in keys THEN from
    ELSE FindKey(s, from + 1, keys)

NoProximateDataset(p) == [kind |-> "Err", error |-> "NoProximateDataset", path |-> p]

\* a plausible slip: the ancestors are walked from the root upwards, so the
\* shortest dataset mount wins
proximate_dataset_rootfirst(p, keys) ==
    LET cands == {k \in keys : IsPrefix(k, p)}
    IN  IF cands = {} THEN NoProximateDataset(p)
        ELSE [kind |-> "Ok",
              mount |-> CHOOSE k \in cands : \A j \in cands : Len(k) <= Len(j)]

\* PathData::proximate_dataset
proximate_dataset(p, keys) ==
    LET anc   == ancestors(p)
        start == SkipWhileCount(anc, 1, DATASET_MAX_LEN(keys))
        hit   == FindKey(anc, start, keys)
    IN  IF hit = 0 THEN NoProximateDataset(p)
        ELSE [kind |-> "Ok", mount |-> anc[hit]]

\* PathData::relative_path: strip_prefix of the dataset mount
relative_path(p, mount) ==
    IF IsPrefix(mount, p)
    THEN [kind |-> "Ok", relative |-> SubSeq(p, Len(mount) + 1, Len(p))]
    ELSE [kind |-> "Err", error |-> "NoRelativePath", path |-> p]

(***************************************************************************)
(* Specification SpecPaths: proximate_dataset on every path and every      *)
(* dataset map within the bounds.                                          *)
(***************************************************************************)
MaxDepth == 3
MaxDatasets == 2

PathNames == {"a", "b"}
AllPaths == SeqsUpTo(PathNames, MaxDepth)
RECURSIVE SubsetsUpTo(_, _)
SubsetsUpTo(S, k) ==
    IF k = 0 THEN {{}}
    ELSE SubsetsUpTo(S, k - 1) \cup {m \cup {x} : m \in SubsetsUpTo(S, k - 1), x \in S}

DatasetMaps == SubsetsUpTo(AllPaths, MaxDatasets)

InitPaths ==
    /\ path_buf \in AllPaths
    /\ map_of_datasets \in DatasetMaps
    /\ prox = Pending
    /\ IdleDeleted
    /\ IdleVersions
    /\ IdleRecursive
    /\ IdleRest

\* one call of PathData::proximate_dataset
ProximateDataset ==
    /\ prox = Pending
    /\ prox' = proximate_dataset(path_buf, map_of_datasets)
    /\ UNCHANGED <<path_buf, map_of_datasets>>
    /\ UNCHANGED notPathVars

NextPaths == ProximateDataset

SpecPaths == InitPaths /\ [][NextPaths]_vars

\* the walk over every ancestor, longest first, that skips nothing
WalkAllAncestors(p, keys) ==
    LET hit == FindKey(ancestors(p), 1, keys)
    IN  IF hit = 0 THEN NoProximateDataset(p)
        ELSE [kind |-> "Ok", mount |-> ancestors(p)[hit]]

\* C1: proximate_dataset(P) is the longest ancestor of P (P included) that is a
\* key of the dataset map, it fails exactly when no ancestor is a key, and the
\* skip of ancestors deeper than the cached maximum depth changes nothing.
C1_Proximity ==
    prox # Pending =>
        /\ prox = WalkAllAncestors(path_buf, map_of_datasets)
        /\ prox.kind = "Ok" =>
              /\ prox.mount \in map_of_datasets
              /\ IsPrefix(prox.mount, path_buf)
              /\ \A k \in map_of_datasets :
                    IsPrefix(k, path_buf) => Len(k) <= Len(prox.mount)
        /\ prox.kind = "Err" =>
              \A k \in map_of_datasets : ~IsPrefix(k, path_buf)

\* two dataset mounts are ancestors of the path, and the path itself is deeper
\* than every mount, so that ancestors were skipped
C1_Witness ==
    /\ prox # Pending
    /\ prox.kind = "Ok"
    /\ Cardinality({k \in map_of_datasets : IsPrefix(k, path_buf)}) = 2
    /\ components_count(path_buf) > DATASET_MAX_LEN(map_of_datasets)

(***************************************************************************)
(* deleted.rs                                                              *)
(*                                                                         *)
(* A dataset's search dirs are modelled by the sequence of its snapshots   *)
(* in the order read_dir(snapshot_dir) returns them; a snapshot by what    *)
(* its mirror of the requested directory holds for each file name: Absent  *)
(* (no such entry, or no mirror directory at all), NoStat (an entry whose  *)
(* symlink_metadata or modified() fails) or the entry's modify time.       *)
(***************************************************************************)
Absent == [st |-> "absent"]
NoStat == [st |-> "nostat"]
Stat(t) == [st |-> "ok", mtime |-> t]

DelNames == {"c", "d"}
Mtimes == {100, 200}
Mirrors == [DelNames -> {Absent, NoStat} \cup {Stat(t) : t \in Mtimes}]

\* BasicDirEntryInfo of a snapshot entry; (ds, snap, file_name) stand for its path
SnapEntry(n, ds, snap, v) == [file_name |-> n, ds |-> ds, snap |-> snap, val |-> v]

\* the sequences that list every element of S exactly once
Perms(S) == {s \in [1..Cardinality(S) -> S] : Range(s) = S}

\* unique_snap_filenames: the entries of all the snapshot mirrors collected into
\* a HashMap keyed by file name, so that the entry read last stays
unique_snap_filenames(dataset, ds) ==
    {SnapEntry(n, ds, j, dataset[j][n]) :
        <<n, j>> \in {<<n, j>> \in DelNames \X DOMAIN dataset :
                        /\ dataset[j][n] # Absent
                        /\ \A k \in DOMAIN dataset :
                              k > j => dataset[k][n] = Absent}}

\* a plausible slip: the comparison with the live file names is left out
get_deleted_per_dataset_nofilter(live, dataset, ds) ==
    unique_snap_filenames(dataset, ds)

\* get_deleted_per_dataset: the snapshot entries whose name is no live name
\* (a set: the order is that of the HashMap's iteration)
get_deleted_per_dataset(live, dataset, ds) ==
    {e \in unique_snap_filenames(dataset, ds) : e.file_name \notin live}

\* selected_datasets and get_search_dirs: alternates first, then the proximate
search_dirs(alt, alts, immediate) ==
    IF alt THEN alts \o <<immediate>> ELSE <<immediate>>

\* the flattened entries of every dataset, each dataset's in any order
RECURSIVE DeletedStreams(_, _, _)
DeletedStreams(live, dirs, i) ==
    IF i > Len(dirs) THEN {<<>>}
    ELSE {head \o rest :
            head \in Perms(get_deleted_per_dataset(live, dirs[i], i)),
            rest \in DeletedStreams(live, dirs, i + 1)}

\* the two filter_maps: entries without metadata or modify time are dropped
StatOk(e) == e.val # NoStat
with_modify_time(stream) == SelectSeq(stream, StatOk)

\* length of the run of elements at the head of s with the file name of s[1]
RECURSIVE RunLength(_, _)
RunLength(s, k) ==
    IF k < Len(s) /\ s[k + 1].file_name = s[1].file_name
    THEN RunLength(s, k + 1)
    ELSE k

\* Iterator::max_by_key on the modify time: the last of the greatest
max_by_key(run) ==
    LET best == MaxOf({run[i].val.mtime : i \in DOMAIN run})
    IN  run[MaxOf({i \in DOMAIN run : run[i].val.mtime = best})]

\* Itertools::group_by on the file name (runs of consecutive elements with the
\* same key), then the max_by_key of each group
RECURSIVE group_by_max(_)
group_by_max(s) ==
    IF s = <<>> THEN <<>>
    ELSE LET k == RunLength(s, 1)
         IN  <<max_by_key(SubSeq(s, 1, k))>> \o group_by_max(SubSeq(s, k + 1, Len(s)))

(***************************************************************************)
(* Specification SpecDeleted: get_unique_deleted on every requested        *)
(* directory and every set of snapshot mirrors within the bounds.          *)
(***************************************************************************)
MaxSnaps == 2

\* the pairs of (alternate's snapshots, proximate's snapshots), at most
\* MaxSnaps snapshots in all
SnapshotLayouts ==
    {<<a, m>> \in SeqsUpTo(Mirrors, MaxSnaps) \X SeqsUpTo(Mirrors, MaxSnaps) :
        Len(a) + Len(m) <= MaxSnaps}

InitDeleted ==
    /\ IdlePaths
    /\ IdleVersions
    /\ IdleRecursive
    /\ IdleRest
    /\ live_names \in SUBSET DelNames
    /\ opt_alt_replicated \in BOOLEAN
    /\ \E l \in SnapshotLayouts :
          /\ alt_replicated = IF opt_alt_replicated THEN <<l[1]>> ELSE <<>>
          /\ most_immediate = l[2]
          /\ ~opt_alt_replicated => l[1] = <<>>
    /\ unique_deleted = Pending

\* get_unique_deleted
GetUniqueDeleted ==
    /\ unique_deleted = Pending
    /\ \E stream \in DeletedStreams(live_names,
                        search_dirs(opt_alt_replicated, alt_replicated, most_immediate), 1) :
          unique_deleted' = [kind |-> "Ok",
                             entries |-> group_by_max(with_modify_time(stream))]
    /\ UNCHANGED <<live_names, opt_alt_replicated, alt_replicated, most_immediate>>
    /\ UNCHANGED notDelVars

NextDeleted == GetUniqueDeleted

SpecDeleted == InitDeleted /\ [][NextDeleted]_vars

\* the datasets of interest, and the copies of a name in their snapshot mirrors
DirsOfInterest == search_dirs(opt_alt_replicated, alt_replicated, most_immediate)

CopiesOf(n) ==
    {SnapEntry(n, i, j, DirsOfInterest[i][j][n]) :
        <<i, j>> \in {<<i, j>> \in (DOMAIN DirsOfInterest) \X (1..MaxSnaps) :
                        /\ j \in DOMAIN DirsOfInterest[i]
                        /\ DirsOfInterest[i][j][n] # Absent}}

SnapshotNames == {n \in DelNames : CopiesOf(n) # {}}

DeletedNames == {unique_deleted.entries[i].file_name : i \in DOMAIN unique_deleted.entries}

C3_LatestRepresentative ==
    unique_deleted # Pending =>
        \A i \in DOMAIN unique_deleted.entries :
            LET e == unique_deleted.entries[i]
            IN  \A c \in CopiesOf(e.file_name) : StatOk(c) => c.val.mtime <= e.val.mtime

\* C4: at most one entry is returned per file name.
C4_OneEntryPerName ==
    unique_deleted # Pending =>
        \A i, j \in DOMAIN unique_deleted.entries :
            unique_deleted.entries[i].file_name = unique_deleted.entries[j].file_name
                => i = j

(***************************************************************************)
(* data/paths.rs: PathData, PathMetadata and the comparators               *)
(***************************************************************************)
NoMetadata == [none |-> TRUE]
PathMetadata(sz, t) == [size |-> sz, modify_time |-> t]
PathData(p, md) == [path_buf |-> p, metadata |-> md]

PHANTOM_DATE == 0
PHANTOM_SIZE == 0
PHANTOM_PATH_METADATA == PathMetadata(PHANTOM_SIZE, PHANTOM_DATE)

\* PathData::metadata_infallible (md_infallible in lookup/versions.rs)
metadata_infallible(pd) ==
    IF pd.metadata = NoMetadata THEN PHANTOM_PATH_METADATA ELSE pd.metadata

\* Ord::cmp on integers
OrdCmp(x, y) == IF x < y THEN "Less" ELSE IF x = y THEN "Equal" ELSE "Greater"

\* PathMetadata::cmp: by modify time, then by size
PathMetadata_cmp(a, b) ==
    LET time_order == OrdCmp(a.modify_time, b.modify_time)
    IN  IF time_order # "Equal" THEN time_order ELSE OrdCmp(a.size, b.size)

\* what symlink_metadata finds at a path inside a snapshot
NotFound == [st |-> "notfound"]
PermissionDenied == [st |-> "denied"]
SnapFile(sz, t, h) == [st |-> "ok", size |-> sz, modify_time |-> t, hash |-> h]

symlink_metadata(files, p) == IF p \in DOMAIN files THEN files[p] ELSE NotFound

\* HashFileContents::path_to_hash
path_to_hash(files, p) ==
    IF symlink_metadata(files, p).st = "ok" THEN files[p].hash ELSE 0

\* CompareContentsContainer::cmp_file_contents
cmp_file_contents(files, a, b) ==
    OrdCmp(path_to_hash(files, a.path_buf), path_to_hash(files, b.path_buf))

\* CompareContentsContainer::cmp
CompareContentsContainer_cmp(files, a, b) ==
    LET size_order == OrdCmp(metadata_infallible(a).size, metadata_infallible(b).size)
    IN  IF size_order = "Equal"
        THEN cmp_file_contents(files, a, b)
        ELSE OrdCmp(metadata_infallible(a).modify_time,
                    metadata_infallible(b).modify_time)

\* CompareVersionsContainer::cmp for the uniqueness mode it was built with
CompareVersionsContainer_cmp(files, a, b, uniqueness) ==
    IF uniqueness = "UniqueContents"
    THEN CompareContentsContainer_cmp(files, a, b)
    ELSE PathMetadata_cmp(metadata_infallible(a), metadata_infallible(b))

\* PathData::alias: the first ancestor that is a key of the alias map
RECURSIVE alias_from(_, _, _)
alias_from(p, aliases, i) ==
    IF i > Len(ancestors(p)) THEN [kind |-> "None"]
    ELSE IF ancestors(p)[i] \in DOMAIN aliases
         THEN [kind |-> "Some",
               proximate_dataset |-> aliases[ancestors(p)[i]],
               relative_path |-> relative_path(p, ancestors(p)[i]).relative]
         ELSE alias_from(p, aliases, i + 1)

alias(p, aliases) == alias_from(p, aliases, 1)

(***************************************************************************)
(* lookup/versions.rs                                                      *)
(***************************************************************************)
Exit == [kind |-> "Exit"]

\* ProximateDatasetAndOptAlts::new
ProximateDatasetAndOptAlts_new(pd, datasets, aliases, alts) ==
    LET al == alias(pd.path_buf, aliases)
        pr == proximate_dataset(pd.path_buf, datasets)
    IN  IF al.kind = "Some"
        THEN [kind |-> "Ok", pathdata |-> pd,
              proximate_dataset |-> al.proximate_dataset,
              relative_path |-> al.relative_path,
              opt_alts |-> IF al.proximate_dataset \in DOMAIN alts
                           THEN alts[al.proximate_dataset] ELSE <<>>]
        ELSE IF pr.kind = "Err" THEN pr
        ELSE IF relative_path(pd.path_buf, pr.mount).kind = "Err"
             THEN relative_path(pd.path_buf, pr.mount)
        ELSE [kind |-> "Ok", pathdata |-> pd,
              proximate_dataset |-> pr.mount,
              relative_path |-> relative_path(pd.path_buf, pr.mount).relative,
              opt_alts |-> IF pr.mount \in DOMAIN alts THEN alts[pr.mount] ELSE <<>>]

\* ProximateDatasetAndOptAlts::datasets_of_interest: alternates, then proximate
datasets_of_interest(prox_opt_alts) ==
    prox_opt_alts.opt_alts \o <<prox_opt_alts.proximate_dataset>>

\* RelativePathAndSnapMounts::versions_unprocessed: the candidates that can be
\* stat'ed, in the order of the snapshot mounts; PermissionDenied ends the process
RECURSIVE versions_unprocessed(_, _, _, _)
versions_unprocessed(files, relative, snap_mounts, i) ==
    IF i > Len(snap_mounts) THEN <<>>
    ELSE LET joined_path == snap_mounts[i] \o relative
             md == symlink_metadata(files, joined_path)
             rest == versions_unprocessed(files, relative, snap_mounts, i + 1)
         IN  IF md.st = "ok"
             THEN <<PathData(joined_path, PathMetadata(md.size, md.modify_time))>> \o rest
             ELSE rest

permission_denied(files, relative, snap_mounts) ==
    \E i \in DOMAIN snap_mounts :
        symlink_metadata(files, snap_mounts[i] \o relative) = PermissionDenied

\* slice::sort_unstable_by_key on the modify time: every ordering of the
\* elements in which the keys ascend (elements with equal keys in any order)
sort_unstable_by_key(s) ==
    {[i \in DOMAIN s |-> s[f[i]]] :
        f \in {f \in Perms(DOMAIN s) :
                \A i, j \in DOMAIN s :
                    i < j => metadata_infallible(s[f[i]]).modify_time
                               <= metadata_infallible(s[f[j]]).modify_time}}

\* Vec::dedup_by: an element is removed when it compares Equal to the element
\* kept before it
RECURSIVE dedup_by(_, _, _, _, _)
dedup_by(files, s, i, kept, uniqueness) ==
    IF i > Len(s) THEN kept
    ELSE IF kept # <<>> /\ CompareVersionsContainer_cmp(files, s[i], kept[Len(kept)],
                                                          uniqueness) = "Equal"
         THEN dedup_by(files, s, i + 1, kept, uniqueness)
         ELSE dedup_by(files, s, i + 1, Append(kept, s[i]), uniqueness)

\* a plausible slip: the All branch deduplicates like the other two
sort_dedup_versions_dedup_all(files, s, uniqueness) ==
    {dedup_by(files, sorted, 1, <<>>,
              IF uniqueness = "All" THEN "UniqueMetadata" ELSE uniqueness) :
        sorted \in sort_unstable_by_key(s)}

\* RelativePathAndSnapMounts::sort_dedup_versions: its possible results
sort_dedup_versions(files, s, uniqueness) ==
    IF uniqueness = "All"
    THEN sort_unstable_by_key(s)
    ELSE {dedup_by(files, sorted, 1, <<>>, uniqueness) : sorted \in sort_unstable_by_key(s)}

\* RelativePathAndSnapMounts::versions_processed
versions_processed(files, relative, snap_mounts, uniqueness) ==
    sort_dedup_versions(files, versions_unprocessed(files, relative, snap_mounts, 1),
                        uniqueness)

\* ProximateDatasetAndOptAlts::into_search_bundles with the flat_map of
\* Versions::new: the concatenations of each bundle's processed versions; a
\* dataset of interest without an entry in map_of_snaps gives no bundle
RECURSIVE snap_versions_from(_, _, _, _, _, _)
snap_versions_from(files, snaps, relative, interest, i, uniqueness) ==
    IF i > Len(interest) THEN {<<>>}
    ELSE LET rest == snap_versions_from(files, snaps, relative, interest, i + 1, uniqueness)
         IN  IF interest[i] \notin DOMAIN snaps THEN rest
             ELSE {head \o tail :
                     head \in versions_processed(files, relative, snaps[interest[i]],
                                                 uniqueness),
                     tail \in rest}

\* Versions::new: its possible results for one path
Versions_new(pd, datasets, aliases, alts, snaps, files, uniqueness) ==
    LET poa == ProximateDatasetAndOptAlts_new(pd, datasets, aliases, alts)
        interest == datasets_of_interest(poa)
    IN  IF poa.kind = "Err" THEN {poa}
        ELSE IF \E i \in DOMAIN interest :
                    /\ interest[i] \in DOMAIN snaps
                    /\ permission_denied(files, poa.relative_path, snaps[interest[i]])
             THEN {Exit}
        ELSE {[kind |-> "Ok", live_path |-> pd, snap_versions |-> v] :
                v \in snap_versions_from(files, snaps, poa.relative_path, interest, 1,
                                         uniqueness)}

Last(s) == s[Len(s)]

\* VersionsMap::is_live_version_redundant
is_live_version_redundant(live_pathdata, snaps) ==
    snaps # <<>> /\ Last(snaps).metadata = live_pathdata.metadata

\* a plausible slip: the redundant last version is never removed
omit_ditto_never(map) == map

\* VersionsMap::omit_ditto
omit_ditto(map) ==
    [pd \in DOMAIN map |->
        IF is_live_version_redundant(pd, map[pd])
        THEN SubSeq(map[pd], 1, Len(map[pd]) - 1)
        ELSE map[pd]]

\* a plausible slip: without a snapshot version NoDittoInclusive gives nothing,
\* like NoDittoExclusive
last_snap_inclusive_as_exclusive(map, last_snap_mode) ==
    [pd \in DOMAIN map |->
        IF map[pd] # <<>>
        THEN IF \/ last_snap_mode = "Any"
                \/ last_snap_mode = "DittoOnly" /\ pd.metadata = Last(map[pd]).metadata
                \/ /\ last_snap_mode \in {"NoDittoExclusive", "NoDittoInclusive"}
                   /\ pd.metadata # Last(map[pd]).metadata
             THEN <<Last(map[pd])>>
             ELSE <<>>
        ELSE IF last_snap_mode = "Without"
             THEN <<pd>>
             ELSE <<>>]

\* VersionsMap::last_snap
last_snap(map, last_snap_mode) ==
    [pd \in DOMAIN map |->
        IF map[pd] # <<>>
        THEN IF \/ last_snap_mode = "Any"
                \/ last_snap_mode = "DittoOnly" /\ pd.metadata = Last(map[pd]).metadata
                \/ /\ last_snap_mode \in {"NoDittoExclusive", "NoDittoInclusive"}
                   /\ pd.metadata # Last(map[pd]).metadata
             THEN <<Last(map[pd])>>
             ELSE <<>>
        ELSE IF last_snap_mode \in {"Without", "NoDittoInclusive"}
             THEN <<pd>>
             ELSE <<>>]

NoVersionsError == [kind |-> "Err", error |-> "NoVersions"]

\* VersionsMap::new, lines 67-91: the BTreeMap collected from the paths whose
\* Versions::new succeeded; per[i] is the outcome for paths[i]
collect_versions(paths, per) ==
    LET oks == {i \in DOMAIN paths : per[i].kind = "Ok"}
    IN  [pd \in {per[i].live_path : i \in oks} |->
            per[CHOOSE i \in oks : per[i].live_path = pd].snap_versions]

\* VersionsMap::new, lines 71-87: the warnings printed while collecting
lookup_warnings(paths, per, interactive) ==
    IF interactive THEN {}
    ELSE {[warn |-> per[i].error, path |-> paths[i].path_buf] :
            i \in {i \in DOMAIN paths : per[i].kind = "Err"}}
         \cup {[warn |-> "NeverExisted", path |-> paths[i].path_buf] :
                 i \in {i \in DOMAIN paths : /\ per[i].kind = "Ok"
                                              /\ per[i].live_path.metadata = NoMetadata
                                              /\ per[i].snap_versions = <<>>}}

\* VersionsMap::new, lines 93-117: the NoVersions check, then omit_ditto, then
\* last_snap
check_and_post_process(all_snap_versions, warnings, omit, last_snap_mode) ==
    LET omitted == IF omit THEN omit_ditto(all_snap_versions) ELSE all_snap_versions
        reduced == IF last_snap_mode # "None"
                   THEN last_snap(omitted, last_snap_mode) ELSE omitted
    IN  IF /\ \A pd \in DOMAIN all_snap_versions : all_snap_versions[pd] = <<>>
           /\ \A pd \in DOMAIN all_snap_versions : pd.metadata = NoMetadata
        THEN NoVersionsError @@ [warnings |-> warnings]
        ELSE [kind |-> "Ok", map |-> reduced, warnings |-> warnings,
              all_snap_versions |-> all_snap_versions]

\* a plausible slip: the first per-path error is propagated with `?`
VersionsMap_new_propagate(paths, per, omit, last_snap_mode, interactive) ==
    LET errs == {i \in DOMAIN paths : per[i].kind = "Err"}
    IN  IF \E i \in DOMAIN paths : per[i].kind = "Exit" THEN Exit
        ELSE IF errs # {}
             THEN per[CHOOSE i \in errs : \A j \in errs : i <= j] @@ [warnings |-> {}]
        ELSE check_and_post_process(collect_versions(paths, per),
                                    lookup_warnings(paths, per, interactive),
                                    omit, last_snap_mode)

\* VersionsMap::new on the outcome of Versions::new for each path of the set
VersionsMap_new(paths, per, omit, last_snap_mode, interactive) ==
    IF \E i \in DOMAIN paths : per[i].kind = "Exit" THEN Exit
    ELSE check_and_post_process(collect_versions(paths, per),
                                lookup_warnings(paths, per, interactive),
                                omit, last_snap_mode)

\* the outcomes Versions::new can have for each path of the set
PerPathOutcomes(uniqueness) ==
    LET outcomes == [i \in DOMAIN path_set |->
                        Versions_new(path_set[i], map_of_datasets, map_of_aliases,
                                     map_of_alts, map_of_snaps, snap_files, uniqueness)]
    IN  {per \in [DOMAIN path_set -> UNION {outcomes[i] : i \in DOMAIN path_set}] :
            \A i \in DOMAIN path_set : per[i] \in outcomes[i]}

\* one call of VersionsMap::new with config.uniqueness = uniqueness
VersionsMapNew(uniqueness) ==
    /\ versions_map[uniqueness] = Pending
    /\ \E per \in PerPathOutcomes(uniqueness) :
          versions_map' = [versions_map EXCEPT ![uniqueness] =
              VersionsMap_new(path_set, per, opt_omit_ditto, opt_last_snap,
                              is_interactive_mode)]
    /\ UNCHANGED <<verInputs, map_of_datasets>>
    /\ UNCHANGED notVerVars

(***************************************************************************)
(* The filesystem layouts of the version lookups                           *)
(***************************************************************************)
Tank == <<"tank">>
Alt == <<"alt">>
Home == <<"home">>
TankA == <<"tank", "a">>
HomeF == <<"home", "f">>

MaxSnapMounts == 2

\* `<dataset>/.zfs/snapshot/<i>`
SnapMount(dataset, i) == dataset \o <<".zfs", "snapshot", ToString(i)>>
TankSnapMounts == [i \in 1..MaxSnapMounts |-> SnapMount(Tank, i)]
AltSnapMounts == <<SnapMount(Alt, 1)>>

LiveMetadata == {NoMetadata, PathMetadata(5, 200)}
\* snapshot versions that agree or differ in size, modify time and contents
SnapFiles == {SnapFile(5, 100, 1), SnapFile(5, 100, 2), SnapFile(6, 100, 3),
              SnapFile(5, 200, 1)}

LastSnapModes ==
    {"None", "Any", "DittoOnly", "NoDittoExclusive", "NoDittoInclusive", "Without"}

Candidates(mounts, relative) == {mounts[i] \o relative : i \in DOMAIN mounts}

NextVersions == \E u \in UniquenessModes : VersionsMapNew(u)

(***************************************************************************)
(* Specification SpecVersions: the versions of /tank/a in the three        *)
(* uniqueness modes, with and without an alternate replicated dataset, no  *)
(* post-processing.                                                        *)
(***************************************************************************)
InitVersions ==
    /\ path_buf = <<>> /\ prox = Pending /\ IdleDeleted /\ IdleRecursive
    /\ IdleRest
    /\ map_of_datasets = {Tank, Alt}
    /\ \E md \in LiveMetadata : path_set = <<PathData(TankA, md)>>
    /\ map_of_snaps = [d \in {Tank, Alt} |-> IF d = Tank THEN TankSnapMounts
                                                          ELSE AltSnapMounts]
    /\ map_of_alts \in {<<>>, [d \in {Tank} |-> <<Alt>>]}
    /\ map_of_aliases = <<>>
    /\ \E tank \in [Candidates(TankSnapMounts, <<"a">>) -> {NotFound} \cup SnapFiles],
          alt \in [Candidates(AltSnapMounts, <<"a">>) -> {NotFound} \cup SnapFiles] :
          /\ map_of_alts = <<>> => \A c \in DOMAIN alt : alt[c] = NotFound
          /\ snap_files = tank @@ alt
    /\ opt_omit_ditto = FALSE
    /\ opt_last_snap = "None"
    /\ is_interactive_mode = FALSE
    /\ versions_map = [u \in UniquenessModes |-> Pending]

SpecVersions == InitVersions /\ [][NextVersions]_vars

(***************************************************************************)
(* Specification SpecLookup: lookups of /tank/a and /home/f, the second    *)
(* under no dataset unless /home is an alias of /tank, with every          *)
(* post-processing option.                                                 *)
(***************************************************************************)
LookupLive == {NoMetadata, PathMetadata(5, 200)}
LookupSnapFiles == {NotFound, PermissionDenied, SnapFile(5, 100, 1), SnapFile(5, 200, 1)}
LookupPathSets ==
    {<<PathData(TankA, a)>> : a \in LookupLive}
    \cup {<<PathData(HomeF, f)>> : f \in LookupLive}
    \cup {<<PathData(TankA, a), PathData(HomeF, f)>> : a \in LookupLive, f \in LookupLive}

InitLookup ==
    /\ path_buf = <<>> /\ prox = Pending /\ IdleDeleted /\ IdleRecursive
    /\ IdleRest
    /\ map_of_datasets = {Tank}
    /\ path_set \in LookupPathSets
    /\ map_of_snaps = [d \in {Tank} |-> TankSnapMounts]
    /\ map_of_alts = <<>>
    /\ map_of_aliases \in {<<>>, [d \in {Home} |-> Tank]}
    /\ (\A i \in DOMAIN path_set : path_set[i].path_buf # HomeF) => map_of_aliases = <<>>
    /\ \E a \in [Candidates(TankSnapMounts, <<"a">>) -> LookupSnapFiles],
          f \in {NotFound, SnapFile(5, 100, 1)} :
          /\ (\A i \in DOMAIN path_set : path_set[i].path_buf # TankA)
                => \A c \in DOMAIN a : a[c] = NotFound
          /\ map_of_aliases = <<>> => f = NotFound
          /\ snap_files = a @@ [c \in Candidates(TankSnapMounts, <<"f">>) |->
                                   IF c = TankSnapMounts[1] \o <<"f">> THEN f ELSE NotFound]
    /\ opt_omit_ditto \in BOOLEAN
    /\ opt_last_snap \in LastSnapModes
    /\ is_interactive_mode \in BOOLEAN
    /\ versions_map = [u \in UniquenessModes |-> Pending]

\* one run makes one lookup: config.uniqueness has one value
NextLookup ==
    \E u \in UniquenessModes :
        (\A v \in UniquenessModes : versions_map[v] = Pending) /\ VersionsMapNew(u)

SpecLookup == InitLookup /\ [][NextLookup]_vars

(***************************************************************************)
(* Claims about the version lookup                                         *)
(***************************************************************************)
Front(s) == SubSeq(s, 1, Len(s) - 1)
IsDitto(pd, version) == version.metadata = pd.metadata

\* C5 as stated: when omit_ditto is enabled, the last element of every list of
\* a returned map never has metadata equal to the metadata of its live record.
C5_OmitDittoLastDiffers ==
    \A u \in UniquenessModes :
        (opt_omit_ditto /\ versions_map[u].kind = "Ok") =>
            \A pd \in DOMAIN versions_map[u].map :
                versions_map[u].map[pd] # <<>>
                    => ~IsDitto(pd, Last(versions_map[u].map[pd]))

\* C5 amended: when omit_ditto is enabled, the last element of a list of the
\* returned map has the metadata of its live record only if the list before the
\* omission ended in two versions with that metadata (one is removed, not all),
\* or last_snap is Without or NoDittoInclusive, the omission left no version and
\* the list is the live record itself.
C5_OmitDittoOnce ==
    \A u \in UniquenessModes :
        (opt_omit_ditto /\ versions_map[u].kind = "Ok") =>
            \A pd \in DOMAIN versions_map[u].map :
                LET list == versions_map[u].map[pd]
                    before == versions_map[u].all_snap_versions[pd]
                IN  (list # <<>> /\ IsDitto(pd, Last(list))) =>
                        \/ /\ Len(before) >= 2
                           /\ IsDitto(pd, before[Len(before)])
                           /\ IsDitto(pd, before[Len(before) - 1])
                        \/ /\ opt_last_snap \in {"Without", "NoDittoInclusive"}
                           /\ list = <<pd>>
                           /\ before = <<>> \/ (Len(before) = 1 /\ IsDitto(pd, before[1]))

\* omit_ditto removed the redundant last version and the version before it
\* differs from the live record
C5_Witness ==
    \E u \in UniquenessModes :
        /\ opt_omit_ditto /\ opt_last_snap = "None" /\ versions_map[u].kind = "Ok"
        /\ \E pd \in DOMAIN versions_map[u].map :
              LET before == versions_map[u].all_snap_versions[pd]
              IN  /\ Len(before) >= 2
                  /\ IsDitto(pd, Last(before))
                  /\ versions_map[u].map[pd] = Front(before)
                  /\ ~IsDitto(pd, Last(versions_map[u].map[pd]))

\* C7 as stated: the lookup returns the NoVersions error only when every input
\* path has no live metadata and no snapshot version.
HasSnapshotVersion(pd) ==
    \E out \in Versions_new(pd, map_of_datasets, map_of_aliases, map_of_alts,
                            map_of_snaps, snap_files, "All") :
        out.kind = "Ok" /\ out.snap_versions # <<>>

C7_NoVersionsOnlyWhenAllPhantom ==
    \A u \in UniquenessModes :
        (versions_map[u].kind = "Err" /\ versions_map[u].error = "NoVersions") =>
            \A i \in DOMAIN path_set :
                path_set[i].metadata = NoMetadata /\ ~HasSnapshotVersion(path_set[i])

UnderNoDataset(p) ==
    ~\E k \in map_of_datasets \cup DOMAIN map_of_aliases : IsPrefix(k, p)

\* C8 as stated: the lookup of a path under no dataset mount and no alias
\* fails with the NoProximateDataset error for that path.
C8_LookupFailsNoProximateDataset ==
    \A u \in UniquenessModes : \A i \in DOMAIN path_set :
        (UnderNoDataset(path_set[i].path_buf) /\ versions_map[u].kind \in {"Ok", "Err"}) =>
            /\ versions_map[u].kind = "Err"
            /\ versions_map[u].error = "NoProximateDataset"
            /\ versions_map[u].path = path_set[i].path_buf

\* C8 amended: for a path under no dataset mount and no alias, Versions::new
\* fails with the NoProximateDataset error for that path; VersionsMap::new does
\* not return that error: it prints it as a warning unless the mode is
\* interactive, leaves the path out of the map, and its only error is NoVersions.
C8_NoProximateDatasetIsWarning ==
    \A i \in DOMAIN path_set :
        UnderNoDataset(path_set[i].path_buf) =>
            \A u \in UniquenessModes :
                /\ Versions_new(path_set[i], map_of_datasets, map_of_aliases, map_of_alts,
                                map_of_snaps, snap_files, u)
                     = {[kind |-> "Err", error |-> "NoProximateDataset",
                         path |-> path_set[i].path_buf]}
                /\ versions_map[u].kind = "Err" => versions_map[u].error = "NoVersions"
                /\ versions_map[u].kind = "Ok" =>
                       \A pd \in DOMAIN versions_map[u].map :
                           pd.path_buf # path_set[i].path_buf
                /\ versions_map[u].kind \in {"Ok", "Err"} =>
                       (([warn |-> "NoProximateDataset", path |-> path_set[i].path_buf]
                            \in versions_map[u].warnings) <=> ~is_interactive_mode)

\* a lookup of two paths, one under no dataset, returned a map with the other
\* and printed the warning
C8_Witness ==
    \E u \in UniquenessModes : \E i \in DOMAIN path_set :
        /\ UnderNoDataset(path_set[i].path_buf)
        /\ versions_map[u].kind = "Ok"
        /\ DOMAIN versions_map[u].map # {}
        /\ [warn |-> "NoProximateDataset", path |-> path_set[i].path_buf]
              \in versions_map[u].warnings

VersionsCount(u) == Len(versions_map[u].map[path_set[1]])
AllModesOk == \A u \in UniquenessModes : versions_map[u].kind = "Ok"

\* C6 as stated: |versions(P, All)| >= |versions(P, UniqueMetadata)| >=
\* |versions(P, UniqueContents)| for the same snapshot candidates.
C6_UniquenessMonotone ==
    AllModesOk => /\ VersionsCount("All") >= VersionsCount("UniqueMetadata")
                  /\ VersionsCount("UniqueMetadata") >= VersionsCount("UniqueContents")

\* C6 amended: for the same snapshot candidates, |versions(P, All)| >=
\* |versions(P, UniqueMetadata)| and |versions(P, All)| >= |versions(P, UniqueContents)|.
C6_AllIsLargest ==
    AllModesOk => /\ VersionsCount("All") >= VersionsCount("UniqueMetadata")
                  /\ VersionsCount("All") >= VersionsCount("UniqueContents")

\* both deduplicating modes dropped a version
C6_Witness ==
    /\ AllModesOk
    /\ VersionsCount("All") > VersionsCount("UniqueMetadata")
    /\ VersionsCount("All") > VersionsCount("UniqueContents")

(***************************************************************************)
(* exec/recursive.rs: the enumerator, run by the background thread of      *)
(* InteractiveBrowse::view (interactive/browse.rs)                         *)
(***************************************************************************)
DeletedModes == {"Disabled", "DepthOfOne", "Enabled", "Only"}

ZFS_HIDDEN_DIRECTORY == ".zfs"
BTRFS_SNAPPER_HIDDEN_DIRECTORY == ".snapshots"

\* Path::ends_with for a one-component argument
ends_with(path, name) == path # <<>> /\ Last(path) = name

\* the requested directory exempts an entry from every test
is_filter_dir_requested_first(path) ==
    IF path = opt_requested_dir THEN FALSE
    ELSE \/ ends_with(path, ZFS_HIDDEN_DIRECTORY)
         \/ ends_with(path, BTRFS_SNAPPER_HIDDEN_DIRECTORY)
         \/ opt_common_snap_dir = <<path>>
         \/ path \in vec_of_filter_dirs

\* is_filter_dir: the hidden snapshot directories, then the common snapshot
\* directory, then the requested directory, then the filter directories
is_filter_dir(path) ==
    IF \/ ends_with(path, ZFS_HIDDEN_DIRECTORY)
       \/ ends_with(path, BTRFS_SNAPPER_HIDDEN_DIRECTORY)
    THEN TRUE
    ELSE IF opt_common_snap_dir = <<path>> THEN TRUE
    ELSE IF path = opt_requested_dir THEN FALSE
    ELSE path \in vec_of_filter_dirs

\* the filter closure of get_entries_partitioned, for an entry of file type
\* directory
keep_dir(path) == opt_no_filter \/ ~is_filter_dir(path)

\* get_entries_partitioned: read_dir fails, or the entries as (vec_dirs, vec_files)
get_entries_partitioned(tree, dir) ==
    IF dir \notin DOMAIN tree \/ ~tree[dir].readable
    THEN [kind |-> "Err"]
    ELSE LET is_dir(path) == path \in Range(tree[dir].dirs)
             unfiltered(path) == is_dir(path) => keep_dir(path)
             entries == SelectSeq(tree[dir].entries, unfiltered)
         IN  [kind |-> "Ok", vec_dirs |-> SelectSeq(entries, is_dir),
              vec_files |-> SelectSeq(entries, LAMBDA path : ~is_dir(path))]

\* the entries keep their paths on the snapshot
get_pseudo_live_versions_on_snap(entries, pseudo_live_dir) == entries

\* get_pseudo_live_versions: the paths that once were
get_pseudo_live_versions(entries, pseudo_live_dir) ==
    [i \in DOMAIN entries |->
        [path |-> pseudo_live_dir \o <<Last(entries[i].path)>>,
         file_type |-> entries[i].file_type]]

\* transmit_entries: try_send of each entry; the first failed send is the error
transmit_entries(entries, is_phantom, alive, chan) ==
    IF entries = <<>> THEN [kind |-> "Ok", rx_item |-> chan]
    ELSE IF ~alive THEN [kind |-> "Err", rx_item |-> chan]
    ELSE [kind |-> "Ok",
          rx_item |-> chan \o [i \in DOMAIN entries |->
                                  [path |-> entries[i].path,
                                   file_type |-> entries[i].file_type,
                                   is_phantom |-> is_phantom]]]

\* BasicDirEntryInfo: the entries of one partition with their file type
BasicDirEntryInfos(paths, file_type) ==
    [i \in DOMAIN paths |-> [path |-> paths[i], file_type |-> file_type]]

\* the directories are left out of what is sent
combine_and_send_entries_files_only(mode, vec_files, vec_dirs, is_phantom, dir, alive, chan) ==
    LET combined == BasicDirEntryInfos(vec_files, "file")
        entries == IF is_phantom THEN get_pseudo_live_versions(combined, dir)
                   ELSE IF mode = "Only" THEN <<>>
                   ELSE combined
    IN  transmit_entries(entries, is_phantom, alive, chan)

\* the directories are put before the files
combine_and_send_entries_dirs_first(mode, vec_files, vec_dirs, is_phantom, dir, alive, chan) ==
    LET combined == BasicDirEntryInfos(vec_dirs, "dir")
                    \o BasicDirEntryInfos(vec_files, "file")
        entries == IF is_phantom THEN get_pseudo_live_versions(combined, dir)
                   ELSE IF mode = "Only" THEN <<>>
                   ELSE combined
    IN  transmit_entries(entries, is_phantom, alive, chan)

\* combine_and_send_entries with display_or_transmit in ExecMode::Interactive
combine_and_send_entries(mode, vec_files, vec_dirs, is_phantom, dir, alive, chan) ==
    LET combined == BasicDirEntryInfos(vec_files, "file")
                    \o BasicDirEntryInfos(vec_dirs, "dir")
        entries == IF is_phantom THEN get_pseudo_live_versions(combined, dir)
                   ELSE IF mode = "Only" THEN <<>>
                   ELSE combined
    IN  transmit_entries(entries, is_phantom, alive, chan)

\* a plausible slip: a task is spawned in every mode
spawn_deleted_always(mode) == TRUE

\* spawn_deleted: whether a task is spawned
spawn_deleted(mode) == mode \in {"Only", "DepthOfOne", "Enabled"}

\* enumerate_live: the result, the item channel afterwards and whether
\* spawn_deleted was reached and spawned
enumerate_live(tree, mode, dir, alive, chan) ==
    LET part == get_entries_partitioned(tree, dir)
        sent == combine_and_send_entries(mode, part.vec_files, part.vec_dirs, FALSE,
                                         dir, alive, chan)
    IN  IF part.kind = "Err" \/ sent.kind = "Err"
        THEN [kind |-> "Err", vec_dirs |-> <<>>, rx_item |-> chan, spawn |-> FALSE]
        ELSE [kind |-> "Ok", vec_dirs |-> part.vec_dirs, rx_item |-> sent.rx_item,
              spawn |-> spawn_deleted(mode)]

\* the effect of one call of enumerate_live on the channel, the scope and the
\* history
EnumerateLive(dir, r) ==
    /\ rx_item' = r.rx_item
    /\ deleted_scope' = IF r.spawn THEN deleted_scope \cup {dir} ELSE deleted_scope
    /\ spawned' = IF r.spawn THEN Append(spawned, dir) ELSE spawned
    /\ popped' = Append(popped, dir)

requested_dir == <<"r">>

\* iterative_enumeration, lines 93-96: the first enumerate_live; its error ends
\* the process in recursive_exec
PrimeThePump ==
    /\ process = "running" /\ background = "start"
    /\ LET r == enumerate_live(live_tree, deleted_mode, requested_dir,
                               rx_item_alive, rx_item)
       IN  /\ EnumerateLive(requested_dir, r)
           /\ IF r.kind = "Err"
              THEN process' = "exit1" /\ UNCHANGED <<queue, background>>
              ELSE /\ queue' = r.vec_dirs
                   /\ background' = IF opt_recursive THEN "loop" ELSE "scope"
                   /\ UNCHANGED process
    /\ UNCHANGED <<recInputs, rx_item_alive, hangup_tx_alive, view, at_hangup>>
    /\ UNCHANGED notRecVars

\* the queue gives its oldest element
pop_front(q) == [item |-> Head(q), queue |-> Tail(q)]

\* VecDeque::pop_back on a queue that is not empty
pop_back(q) == [item |-> q[Len(q)], queue |-> SubSeq(q, 1, Len(q) - 1)]

\* an error empties the queue
extend_or_clear(q, r) == IF r.kind = "Ok" THEN q \o r.vec_dirs ELSE <<>>

\* iterative_enumeration, lines 104-108: the queue is extended if
\* enumerate_live returned Ok, and the error is dropped otherwise
extend_if_ok(q, r) == IF r.kind = "Ok" THEN q \o r.vec_dirs ELSE q

\* iterative_enumeration, lines 98-109: one turn of the loop
PopBack ==
    /\ process = "running" /\ background = "loop" /\ queue # <<>>
    /\ LET item == pop_back(queue).item
           r == enumerate_live(live_tree, deleted_mode, item, rx_item_alive, rx_item)
       IN  /\ EnumerateLive(item, r)
           /\ queue' = extend_if_ok(pop_back(queue).queue, r)
    /\ UNCHANGED <<recInputs, background, rx_item_alive, hangup_tx_alive, view, process,
                   at_hangup>>
    /\ UNCHANGED notRecVars

\* iterative_enumeration, line 101: pop_back finds the queue empty
QueueEmpty ==
    /\ process = "running" /\ background = "loop" /\ queue = <<>>
    /\ background' = "scope"
    /\ UNCHANGED <<recInputs, queue, deleted_scope, rx_item, rx_item_alive,
                   hangup_tx_alive, view, process, popped, spawned, at_hangup>>
    /\ UNCHANGED notRecVars

\* get_entries_behind_deleted_dir: recurse_behind_deleted_dir reads the
\* directory on the snapshot, sends its entries as children of the pseudo live
\* directory, and descends into its directories until the first error
RECURSIVE recurse_behind_deleted_dir(_, _, _, _, _, _)
RECURSIVE try_for_each_behind_deleted_dir(_, _, _, _, _, _)
recurse_behind_deleted_dir(mode, dir_name, from_deleted_dir, from_requested_dir, alive, chan) ==
    LET deleted_dir_on_snap == from_deleted_dir \o <<dir_name>>
        pseudo_live_dir == from_requested_dir \o <<dir_name>>
        part == get_entries_partitioned(snap_tree, deleted_dir_on_snap)
    IN  IF part.kind = "Err" THEN [kind |-> "Err", rx_item |-> chan]
        ELSE LET sent == combine_and_send_entries(mode, part.vec_files, part.vec_dirs,
                                                  TRUE, pseudo_live_dir, alive, chan)
             IN  IF sent.kind = "Err" THEN sent
                 ELSE try_for_each_behind_deleted_dir(mode, part.vec_dirs,
                          deleted_dir_on_snap, pseudo_live_dir, alive, sent.rx_item)

try_for_each_behind_deleted_dir(mode, vec_dirs, from_deleted_dir, from_requested_dir, alive, chan) ==
    IF vec_dirs = <<>> THEN [kind |-> "Ok", rx_item |-> chan]
    ELSE LET r == recurse_behind_deleted_dir(mode, Last(Head(vec_dirs)), from_deleted_dir,
                                             from_requested_dir, alive, chan)
         IN  IF r.kind = "Err" THEN r
             ELSE try_for_each_behind_deleted_dir(mode, Tail(vec_dirs), from_deleted_dir,
                                                  from_requested_dir, alive, r.rx_item)

RECURSIVE get_entries_behind_each_deleted_dir(_, _, _, _, _)
get_entries_behind_each_deleted_dir(mode, vec_dirs, dir, alive, chan) ==
    IF vec_dirs = <<>> THEN [kind |-> "Ok", rx_item |-> chan]
    ELSE LET deleted_dir == Head(vec_dirs)
             r == recurse_behind_deleted_dir(mode, Last(deleted_dir), Front(deleted_dir),
                                             dir, alive, chan)
         IN  IF r.kind = "Err" THEN r
             ELSE get_entries_behind_each_deleted_dir(mode, Tail(vec_dirs), dir, alive,
                                                      r.rx_item)

\* the recursion behind deleted directories happens in every mode
enumerate_deleted_any_depth(tree, mode, recursive, dir, alive, chan) ==
    LET deleted == tree[dir].deleted
        paths(file_type) ==
            LET of_type == SelectSeq(deleted, LAMBDA info : info.file_type = file_type)
            IN  [i \in DOMAIN of_type |-> of_type[i].path]
        sent == combine_and_send_entries(mode, paths("file"), paths("dir"), TRUE, dir,
                                         alive, chan)
    IN  IF sent.kind = "Err" THEN sent
        ELSE get_entries_behind_each_deleted_dir(mode, paths("dir"), dir, alive,
                                                 sent.rx_item)

\* enumerate_deleted: the deleted entries of the directory are sent as its
\* pseudo live children; the deleted directories are descended into unless
\* the mode is DepthOfOne or the search is not recursive
enumerate_deleted(tree, mode, recursive, dir, alive, chan) ==
    LET deleted == tree[dir].deleted
        paths(file_type) ==
            LET of_type == SelectSeq(deleted, LAMBDA info : info.file_type = file_type)
            IN  [i \in DOMAIN of_type |-> of_type[i].path]
        sent == combine_and_send_entries(mode, paths("file"), paths("dir"), TRUE, dir,
                                         alive, chan)
    IN  IF sent.kind = "Err" THEN sent
        ELSE IF mode # "DepthOfOne" /\ recursive
        THEN get_entries_behind_each_deleted_dir(mode, paths("dir"), dir, alive,
                                                 sent.rx_item)
        ELSE [kind |-> "Ok", rx_item |-> sent.rx_item]

\* the task of spawn_deleted runs enumerate_deleted on a thread of the pool;
\* its error is dropped
EnumerateDeleted(dir) ==
    /\ process = "running" /\ dir \in deleted_scope
    /\ rx_item' = enumerate_deleted(live_tree, deleted_mode, opt_recursive, dir,
                                    rx_item_alive, rx_item).rx_item
    /\ deleted_scope' = deleted_scope \ {dir}
    /\ UNCHANGED <<recInputs, queue, background, rx_item_alive, hangup_tx_alive, view,
                   process, popped, spawned, at_hangup>>
    /\ UNCHANGED notRecVars

\* the scope returns with tasks still to run
in_place_scope_no_wait(scope) == TRUE

\* ThreadPool::in_place_scope returns once the tasks spawned into the scope
\* have all run
in_place_scope_returns(scope) == scope = {}

\* recursive_exec: in_place_scope returns when every spawned task has run;
\* the pool is dropped and recursive_exec returns
ScopeEnd ==
    /\ process = "running" /\ background = "scope" /\ in_place_scope_returns(deleted_scope)
    /\ background' = "done"
    /\ UNCHANGED <<recInputs, queue, deleted_scope, rx_item, rx_item_alive,
                   hangup_tx_alive, view, process, popped, spawned, at_hangup>>
    /\ UNCHANGED notRecVars

\* InteractiveBrowse::view, lines 121-124: the display thread returns a
\* selection and the hangup sender is dropped
Select ==
    /\ process = "running" /\ view = "display"
    /\ hangup_tx_alive' = FALSE
    /\ view' = "join"
    /\ at_hangup' = [popped |-> popped, spawned |-> spawned, sent |-> Len(rx_item)]
    /\ UNCHANGED <<recInputs, queue, background, deleted_scope, rx_item, rx_item_alive,
                   process, popped, spawned>>
    /\ UNCHANGED notRecVars

\* InteractiveBrowse::view, lines 117-120: the session is aborted
Abort ==
    /\ process = "running" /\ view = "display"
    /\ process' = "exit0"
    /\ UNCHANGED <<recInputs, queue, background, deleted_scope, rx_item, rx_item_alive,
                   hangup_tx_alive, view, popped, spawned, at_hangup>>
    /\ UNCHANGED notRecVars

\* InteractiveBrowse::view, line 140: the display thread gave no output; view
\* returns the error and hangup_tx is dropped with its scope
Fail ==
    /\ process = "running" /\ view = "display"
    /\ hangup_tx_alive' = FALSE
    /\ view' = "failed"
    /\ UNCHANGED <<recInputs, queue, background, deleted_scope, rx_item, rx_item_alive,
                   process, popped, spawned, at_hangup>>
    /\ UNCHANGED notRecVars

\* skim, to which the receiver was moved, drops it once run_with has returned
DropReceiver ==
    /\ process = "running" /\ view \in {"join", "done", "failed"} /\ rx_item_alive
    /\ rx_item_alive' = FALSE
    /\ UNCHANGED <<recInputs, queue, background, deleted_scope, rx_item,
                   hangup_tx_alive, view, process, popped, spawned, at_hangup>>
    /\ UNCHANGED notRecVars

\* InteractiveBrowse::view, line 125: background_handle.join() returns
Join ==
    /\ process = "running" /\ view = "join" /\ background = "done"
    /\ view' = "done"
    /\ UNCHANGED <<recInputs, queue, background, deleted_scope, rx_item, rx_item_alive,
                   hangup_tx_alive, process, popped, spawned, at_hangup>>
    /\ UNCHANGED notRecVars

(***************************************************************************)
(* Specification SpecRecurse: a browse session over small directory trees  *)
(***************************************************************************)
DirX == <<"r", "x">>
DirY == <<"r", "y">>
DirXZ == <<"r", "x", "z">>
DirZfs == <<"r", ZFS_HIDDEN_DIRECTORY>>
ReadOrder == <<DirY, DirX, DirXZ, DirZfs>>
TreeShapes == {{requested_dir}, {requested_dir, DirX}, {requested_dir, DirX, DirY},
               {requested_dir, DirX, DirXZ}, {requested_dir, DirX, DirY, DirXZ},
               {requested_dir, DirX, DirZfs}}

MaxFiles == 1
FileNames == <<"f", "g", "h">>

IsChildOf(c, d) == Len(c) = Len(d) + 1 /\ IsPrefix(d, c)
ChildDirs(S, d, i) ==
    IF i \in DOMAIN ReadOrder /\ ReadOrder[i] \in S /\ IsChildOf(ReadOrder[i], d)
    THEN <<ReadOrder[i]>> ELSE <<>>

\* the directory of the latest snapshot that holds the copy of the live
\* directory d, the dataset being mounted at the requested directory
SnapOf(d) == <<"r", ZFS_HIDDEN_DIRECTORY, "snapshot", "s1">> \o Tail(d)

\* the hidden snapshot directory has no copy of itself on a snapshot
HasSnapshotCopy(d) == ZFS_HIDDEN_DIRECTORY \notin Range(d)

\* what is gone from each directory, if anything is: a file, a directory "ga"
\* two levels deep, a directory "gd" whose snapshot copy cannot be read, and
\* a directory "ge"
DeletedOf(d, gone) ==
    LET file == <<[path |-> SnapOf(d) \o <<"gone">>, file_type |-> "file"]>>
        dir(name) == <<[path |-> SnapOf(d) \o <<name>>, file_type |-> "dir"]>>
    IN  IF gone /\ HasSnapshotCopy(d)
        THEN dir("ga") \o file \o dir("gd") \o dir("ge") ELSE <<>>

\* a tree with the directories S, n files in each, `unreadable` failing
\* read_dir, read_dir yielding the files after the first directory and before
\* the others, and the deleted entries of `gone` in each directory
LiveTree(S, n, unreadable, gone) ==
    [d \in S |->
        LET dirs == ChildDirs(S, d, 1) \o ChildDirs(S, d, 2) \o ChildDirs(S, d, 3)
                    \o ChildDirs(S, d, 4)
            files == [i \in 1..n |-> d \o <<FileNames[i]>>]
        IN  [readable |-> d \notin unreadable,
             dirs |-> dirs,
             files |-> files,
             entries |-> IF dirs = <<>> THEN files
                         ELSE <<Head(dirs)>> \o files \o Tail(dirs),
             deleted |-> DeletedOf(d, gone)]]

\* the snapshot copies of the deleted directories of the tree
SnapTree(S, gone) ==
    LET copied == {d \in S : HasSnapshotCopy(d)}
        ga == {SnapOf(d) \o <<"ga">> : d \in copied}
        gs == {SnapOf(d) \o <<"ga", "gs">> : d \in copied}
        gd == {SnapOf(d) \o <<"gd">> : d \in copied}
        ge == {SnapOf(d) \o <<"ge">> : d \in copied}
        keys == IF gone THEN ga \cup gs \cup gd \cup ge ELSE {}
    IN  [k \in keys |->
            IF k \in ga
            THEN [readable |-> TRUE, dirs |-> <<k \o <<"gs">>>>,
                  files |-> <<k \o <<"gf">>>>,
                  entries |-> <<k \o <<"gs">>, k \o <<"gf">>>>]
            ELSE [readable |-> k \notin gd, dirs |-> <<>>,
                  files |-> <<k \o <<"gf">>>>,
                  entries |-> <<k \o <<"gf">>>>]]

InitRecurse ==
    /\ IdlePaths /\ IdleDeleted /\ IdleVersions /\ IdleRest
    /\ \E S \in TreeShapes, n \in {0, MaxFiles}, gone \in BOOLEAN,
          unreadable \in {{}, {requested_dir}, {DirX}} :
          /\ live_tree = LiveTree(S, n, unreadable \cap S, gone)
          /\ snap_tree = SnapTree(S, gone)
          /\ opt_no_filter \in {FALSE} \cup {DirZfs \in S}
          /\ vec_of_filter_dirs \in {{}, {DirY} \cap S}
    /\ opt_common_snap_dir = <<>>
    /\ opt_requested_dir = requested_dir
    /\ deleted_mode \in DeletedModes
    /\ opt_recursive \in BOOLEAN
    /\ queue = <<>>
    /\ background = "start"
    /\ deleted_scope = {}
    /\ rx_item = <<>>
    /\ rx_item_alive = TRUE
    /\ hangup_tx_alive = TRUE
    /\ view = "display"
    /\ process = "running"
    /\ popped = <<>>
    /\ spawned = <<>>
    /\ at_hangup = Pending

NextRecurse ==
    \/ PrimeThePump
    \/ PopBack
    \/ QueueEmpty
    \/ \E dir \in deleted_scope : EnumerateDeleted(dir)
    \/ ScopeEnd
    \/ Select
    \/ Abort
    \/ Fail
    \/ DropReceiver
    \/ Join

SpecRecurse == InitRecurse /\ [][NextRecurse]_vars

LiveItems(chan) == SelectSeq(chan, LAMBDA item : ~item.is_phantom)

\* C9 as stated: once the hangup sender is dropped, the enumerator calls
\* enumerate_live on no further directory, sends the live entries of no
\* further directory and spawns no further deleted task.
C9_NoPopAfterHangup ==
    [][~hangup_tx_alive =>
          /\ popped' = popped
          /\ spawned' = spawned
          /\ LiveItems(rx_item') = LiveItems(rx_item)]_vars

\* C10 as stated: when the join of view returns, the background thread has
\* walked no directory and spawned no task beyond those at the time the hangup
\* sender was dropped.
C10_JoinWithoutWalk ==
    view = "done" => /\ popped = at_hangup.popped
                     /\ spawned = at_hangup.spawned

\* the send of the live entries of `dir` failed: enumerate_live read the
\* directory and had entries to send, and none of them is in the channel
SendFailed(dir) ==
    LET part == get_entries_partitioned(live_tree, dir)
    IN  /\ dir \in Range(popped)
        /\ part.kind = "Ok"
        /\ deleted_mode # "Only"
        /\ part.vec_files \o part.vec_dirs # <<>>
        /\ \A i \in DOMAIN rx_item :
              rx_item[i].path \notin Range(part.vec_files \o part.vec_dirs)

\* C11 as stated: after the first failed send of a directory's entries, be it
\* the requested directory or one popped from the queue, no further directory
\* is popped and no further item is sent.
C11_StopsOnSendFailure ==
    [][(\E dir \in Range(popped) : SendFailed(dir)) =>
          /\ popped' = popped
          /\ rx_item' = rx_item]_vars

\* the entries of the live tree: the files and directories read_dir yields in
\* any directory of the tree
TreeEntries ==
    UNION {Range(live_tree[d].files) \cup Range(live_tree[d].dirs) : d \in DOMAIN live_tree}

\* the directories strictly between the requested directory and the entry
DirsAbove(e) ==
    {SubSeq(e, 1, k) : k \in (Len(opt_requested_dir) + 1)..(Len(e) - 1)}

IsFiltered(e) == e \in DOMAIN live_tree /\ ~keep_dir(e)
BeneathFiltered(e) == \E d \in DirsAbove(e) : IsFiltered(d)
BeneathUnreadable(e) ==
    \E d \in DirsAbove(e) \cup {opt_requested_dir} : ~live_tree[d].readable

TimesEmitted(e) == Cardinality({i \in DOMAIN rx_item :
                                   ~rx_item[i].is_phantom /\ rx_item[i].path = e})

\* a recursive enumeration that ran to completion without cancellation
RanToCompletion ==
    /\ opt_recursive /\ deleted_mode # "Only"
    /\ background = "done" /\ hangup_tx_alive /\ rx_item_alive

\* C12 as stated: when a recursive enumeration in a mode other than Only has
\* run to completion uncancelled, every live entry that is neither filtered
\* nor beneath a filtered directory has been emitted exactly once.
C12_EveryLiveEntryOnce ==
    RanToCompletion =>
        \A e \in TreeEntries :
            ~IsFiltered(e) /\ ~BeneathFiltered(e) => TimesEmitted(e) = 1

\* C12 amended: no live entry is ever emitted twice, and at completion every
\* live entry that is neither filtered, nor beneath a filtered directory, nor
\* beneath a directory whose read_dir failed has been emitted exactly once.
C12_EveryReadableLiveEntryOnce ==
    /\ \A e \in TreeEntries : TimesEmitted(e) <= 1
    /\ RanToCompletion =>
           \A e \in TreeEntries :
               ~IsFiltered(e) /\ ~BeneathFiltered(e) /\ ~BeneathUnreadable(e)
                   => TimesEmitted(e) = 1

\* a completed enumeration of three levels with a file in each directory
C12_Witness ==
    /\ RanToCompletion
    /\ DirXZ \in DOMAIN live_tree
    /\ \A d \in DOMAIN live_tree : live_tree[d].readable /\ live_tree[d].files # <<>>
    /\ \A e \in TreeEntries : TimesEmitted(e) = 1

(***************************************************************************)
(* lookup/versions.rs: auto_mount_network_volumes and the stat of the      *)
(* candidates in versions_unprocessed, run by the threads of the par_iter  *)
(* of VersionsMap::new                                                     *)
(***************************************************************************)
MaxLookups == 2
Threads == 1..MaxLookups

Net == <<"net">>

\* lines 315-320: the dataset is local, or has no entry in map_of_datasets
is_local(dataset) ==
    IF dataset \in DOMAIN link_type THEN link_type[dataset] = "Local" ELSE TRUE

\* map_of_snaps.get(dataset_of_interest).into_iter().flatten()
snap_mounts_of(dataset) ==
    IF dataset \in DOMAIN map_of_snaps THEN map_of_snaps[dataset] ELSE <<>>

\* every snap mount of the dataset has been opened and read
IsPrimed(dataset) ==
    \A i \in DOMAIN snap_mounts_of(dataset) : read_dirs[snap_mounts_of(dataset)[i]] > 0

\* lines 314-322: the test of the link type
LinkTypeTest(t) ==
    /\ pc[t] = "link_type"
    /\ pc' = [pc EXCEPT ![t] = IF is_local(dataset_of_interest[t])
                               THEN "stat" ELSE "read"]
    /\ UNCHANGED <<link_type, dataset_of_interest, next_mount, CACHE_RESULT, read_dirs,
                   stats>>
    /\ UNCHANGED <<pathVars, delVars, verVars, recVars, filterVars, guardVars, lateVars>>

\* lines 324-328: the look-up under the read lock, released at the end of
\* the condition
CacheRead(t) ==
    /\ pc[t] = "read"
    /\ pc' = [pc EXCEPT ![t] = IF CACHE_RESULT[dataset_of_interest[t]] = 0
                               THEN "write" ELSE "stat"]
    /\ UNCHANGED <<link_type, dataset_of_interest, next_mount, CACHE_RESULT, read_dirs,
                   stats>>
    /\ UNCHANGED <<pathVars, delVars, verVars, recVars, filterVars, guardVars, lateVars>>

\* lines 330-332: insert_unique_unchecked under the write lock
CacheWrite(t) ==
    /\ pc[t] = "write"
    /\ CACHE_RESULT' = [CACHE_RESULT EXCEPT ![dataset_of_interest[t]] = @ + 1]
    /\ pc' = [pc EXCEPT ![t] = IF snap_mounts_of(dataset_of_interest[t]) = <<>>
                               THEN "stat" ELSE "read_dir"]
    /\ UNCHANGED <<link_type, dataset_of_interest, next_mount, read_dirs, stats>>
    /\ UNCHANGED <<pathVars, delVars, verVars, recVars, filterVars, guardVars, lateVars>>

\* lines 334-342: read_dir and the first entry of one snap mount
ReadDir(t) ==
    /\ pc[t] = "read_dir"
    /\ LET mounts == snap_mounts_of(dataset_of_interest[t])
       IN  /\ read_dirs' = [read_dirs EXCEPT ![mounts[next_mount[t]]] = @ + 1]
           /\ IF next_mount[t] = Len(mounts)
              THEN /\ pc' = [pc EXCEPT ![t] = "stat"]
                   /\ next_mount' = [next_mount EXCEPT ![t] = 1]
              ELSE /\ next_mount' = [next_mount EXCEPT ![t] = @ + 1]
                   /\ UNCHANGED pc
    /\ UNCHANGED <<link_type, dataset_of_interest, CACHE_RESULT, stats>>
    /\ UNCHANGED <<pathVars, delVars, verVars, recVars, filterVars, guardVars, lateVars>>

\* versions_unprocessed, lines 355-361: symlink_metadata of one candidate
SymlinkMetadata(t) ==
    /\ pc[t] = "stat"
    /\ LET dataset == dataset_of_interest[t]
           mounts == snap_mounts_of(dataset)
       IN  IF mounts = <<>>
           THEN pc' = [pc EXCEPT ![t] = "done"] /\ UNCHANGED <<stats, next_mount>>
           ELSE /\ stats' = stats \cup {[thread |-> t, dataset |-> dataset,
                                          snap_mount |-> mounts[next_mount[t]],
                                          primed |-> IsPrimed(dataset)]}
                /\ IF next_mount[t] = Len(mounts)
                   THEN pc' = [pc EXCEPT ![t] = "done"] /\ UNCHANGED next_mount
                   ELSE /\ next_mount' = [next_mount EXCEPT ![t] = @ + 1]
                        /\ UNCHANGED pc
    /\ UNCHANGED <<link_type, dataset_of_interest, CACHE_RESULT, read_dirs>>
    /\ UNCHANGED <<pathVars, delVars, verVars, recVars, filterVars, guardVars, lateVars>>

(***************************************************************************)
(* Specification SpecMount: parallel lookups under a local, a network and  *)
(* an unknown dataset                                                      *)
(***************************************************************************)
MountDatasets == {Tank, Net, Alt}

InitMount ==
    /\ path_buf = <<>> /\ prox = Pending /\ IdleDeleted /\ IdleRecursive
    /\ IdleFilter /\ IdleGuard /\ IdleLate
    /\ map_of_datasets = {Tank, Net}
    /\ link_type = (Tank :> "Local") @@ (Net :> "Network")
    /\ map_of_snaps = [d \in MountDatasets |->
                          [i \in 1..MaxSnapMounts |-> SnapMount(d, i)]]
    /\ path_set = <<>>
    /\ map_of_alts = <<>>
    /\ map_of_aliases = <<>>
    /\ snap_files = <<>>
    /\ opt_omit_ditto = FALSE
    /\ opt_last_snap = "None"
    /\ is_interactive_mode = FALSE
    /\ versions_map = [u \in UniquenessModes |-> Pending]
    /\ dataset_of_interest \in [Threads -> MountDatasets]
    /\ pc = [t \in Threads |-> "link_type"]
    /\ next_mount = [t \in Threads |-> 1]
    /\ CACHE_RESULT = [d \in MountDatasets |-> 0]
    /\ read_dirs = [m \in UNION {Range(map_of_snaps[d]) : d \in MountDatasets} |-> 0]
    /\ stats = {}

NextMount ==
    \E t \in Threads :
        \/ LinkTypeTest(t)
        \/ CacheRead(t)
        \/ CacheWrite(t)
        \/ ReadDir(t)
        \/ SymlinkMetadata(t)

SpecMount == InitMount /\ [][NextMount]_vars

\* C13 as stated: under any interleaving of the lookups, a dataset is written
\* into the memo set at most once.
C13_MemoWrittenOnce ==
    \A d \in DOMAIN CACHE_RESULT : CACHE_RESULT[d] <= 1

\* C14 as stated: a candidate under a snap mount of a non-local dataset is
\* stat'ed only after every snap mount of the dataset was primed; each snap
\* mount is primed once; for a local dataset nothing is primed and the memo
\* set stays as it was.
C14_PrimedBeforeStat ==
    /\ \A s \in stats : ~is_local(s.dataset) => s.primed
    /\ \A m \in DOMAIN read_dirs : read_dirs[m] <= 1
    /\ \A d \in DOMAIN CACHE_RESULT :
          is_local(d) => /\ CACHE_RESULT[d] = 0
                         /\ \A i \in DOMAIN snap_mounts_of(d) :
                               read_dirs[snap_mounts_of(d)[i]] = 0

(***************************************************************************)
(* data/paths.rs: ZfsSnapPathGuard.  The string of a path is the sequence  *)
(* of its names with a "/" before each; a name is one symbol.              *)
(***************************************************************************)
None == [kind |-> "None"]
Some(x) == [kind |-> "Some", value |-> x]

ZFS_SNAPSHOT_DIRECTORY == <<ZFS_HIDDEN_DIRECTORY, "/", "snapshot">>

\* Path::to_string_lossy of an absolute path
RECURSIVE to_string_lossy(_)
to_string_lossy(path) ==
    IF path = <<>> THEN <<>>
    ELSE <<"/", Head(path)>> \o to_string_lossy(Tail(path))

\* str::find: the first index at which the pattern starts, or 0
str_find(str, pat) ==
    LET starts == {i \in 1..(Len(str) - Len(pat) + 1) :
                      SubSeq(str, i, i + Len(pat) - 1) = pat}
    IN  IF starts = {} THEN 0 ELSE CHOOSE i \in starts : \A j \in starts : i <= j

\* str::rfind: the last index at which the pattern starts, or 0
str_rfind(str, pat) ==
    LET starts == {i \in 1..(Len(str) - Len(pat) + 1) :
                      SubSeq(str, i, i + Len(pat) - 1) = pat}
    IN  IF starts = {} THEN 0 ELSE CHOOSE i \in starts : \A j \in starts : i >= j

str_contains(str, pat) == str_find(str, pat) # 0

split_at(str, pat, i) ==
    IF i = 0 THEN None
    ELSE Some(<<SubSeq(str, 1, i - 1), SubSeq(str, i + Len(pat), Len(str))>>)

\* str::split_once and str::rsplit_once
split_once(str, pat) == split_at(str, pat, str_find(str, pat))
rsplit_once(str, pat) == split_at(str, pat, str_rfind(str, pat))

\* Path::components of a string without "." and "..": the names between the
\* separators
components(str) == SelectSeq(str, LAMBDA c : c # "/")

\* PathBuf::join: an absolute argument replaces the base
PathBuf_join(base, relative) ==
    IF relative # <<>> /\ relative[1] = "/" THEN components(relative)
    ELSE components(base) \o components(relative)

\* ZfsSnapPathGuard::is_zfs_snap_path
is_zfs_snap_path(path) == str_contains(to_string_lossy(path), ZFS_SNAPSHOT_DIRECTORY)

\* the split is made at the last occurrence of the snapshot directory
ZfsSnapPathGuard_live_path_rsplit(path) ==
    LET outer == rsplit_once(to_string_lossy(path), ZFS_SNAPSHOT_DIRECTORY \o <<"/">>)
    IN  IF outer = None THEN None
        ELSE LET inner == split_once(outer.value[2], <<"/">>)
             IN  IF inner = None THEN None
                 ELSE Some(PathBuf_join(outer.value[1], inner.value[2]))

\* ZfsSnapPathGuard::live_path
ZfsSnapPathGuard_live_path(path) ==
    LET outer == split_once(to_string_lossy(path), ZFS_SNAPSHOT_DIRECTORY \o <<"/">>)
    IN  IF outer = None THEN None
        ELSE LET inner == split_once(outer.value[2], <<"/">>)
             IN  IF inner = None THEN None
                 ELSE Some(PathBuf_join(outer.value[1], inner.value[2]))

\* ZfsSnapPathGuard::new, then live_path of the guard
LivePath ==
    /\ live_path = Pending
    /\ live_path' = IF ~is_zfs_snap_path(snap_path) THEN [kind |-> "NoGuard"]
                    ELSE ZfsSnapPathGuard_live_path(snap_path)
    /\ UNCHANGED snap_path
    /\ UNCHANGED <<pathVars, delVars, verVars, recVars, filterVars, mountVars, lateVars>>

(***************************************************************************)
(* Specification SpecGuard: live_path of every short path                  *)
(***************************************************************************)
MaxPathLen == 6
GuardNames == {"tank", ZFS_HIDDEN_DIRECTORY, "snapshot", "s1", "sub", "f"}

InitGuard ==
    /\ IdlePaths /\ IdleDeleted /\ IdleVersions /\ IdleRecursive
    /\ IdleFilter /\ IdleMount /\ IdleLate
    /\ snap_path \in SeqsUpTo(GuardNames, MaxPathLen)
    /\ live_path = Pending

NextGuard == LivePath

SpecGuard == InitGuard /\ [][NextGuard]_vars

\* the index of the first ".zfs" that is followed by "snapshot", or 0
FirstSnapshotDir(path) ==
    LET at == {i \in 1..(Len(path) - 1) :
                  path[i] = ZFS_HIDDEN_DIRECTORY /\ path[i + 1] = "snapshot"}
    IN  IF at = {} THEN 0 ELSE CHOOSE i \in at : \A j \in at : i <= j

\* C15: for a path <dataset>/.zfs/snapshot/<name>/<rest>, where the
\* snapshot directory is its first occurrence in the path and <rest> is not
\* empty, live_path is <dataset>/<rest>.
C15_LivePathOfSnapPath ==
    LET i == FirstSnapshotDir(snap_path)
    IN  live_path # Pending /\ i # 0 /\ Len(snap_path) >= i + 3 =>
            live_path = Some(SubSeq(snap_path, 1, i - 1)
                             \o SubSeq(snap_path, i + 3, Len(snap_path)))

\* /tank/.zfs/snapshot/s1/sub/f gives /tank/sub/f
C15_Witness ==
    /\ snap_path = <<"tank", ZFS_HIDDEN_DIRECTORY, "snapshot", "s1", "sub", "f">>
    /\ live_path = Some(<<"tank", "sub", "f">>)

(***************************************************************************)
(* The order and the deduplication of a version list (SpecVersions)        *)
(***************************************************************************)
\* the snapshot candidates of the path that symlink_metadata finds, over
\* every dataset of interest
SurvivingCandidates ==
    Range(versions_unprocessed(snap_files, <<"a">>, AltSnapMounts \o TankSnapMounts, 1))

VersionList(u) == versions_map[u].map[path_set[1]]

IsSortedByMtime(list) ==
    \A i \in 1..(Len(list) - 1) :
        list[i].metadata.modify_time <= list[i + 1].metadata.modify_time

\* the orderings of the candidates by ascending modify time
SortedCandidates == {s \in Perms(SurvivingCandidates) : IsSortedByMtime(s)}

SameMetadata(a, b) == a.metadata = b.metadata
SameContents(a, b) == snap_files[a.path_buf].hash = snap_files[b.path_buf].hash
Same(a, b, what) == IF what = "contents" THEN SameContents(a, b) ELSE SameMetadata(a, b)

\* the list with every record removed that is the same as the record kept
\* before it
RECURSIVE DropAdjacent(_, _, _)
DropAdjacent(list, kept, what) ==
    IF list = <<>> THEN kept
    ELSE IF kept # <<>> /\ Same(Head(list), Last(kept), what)
         THEN DropAdjacent(Tail(list), kept, what)
         ELSE DropAdjacent(Tail(list), Append(kept, Head(list)), what)

\* C16 as stated: under All the list of a path holds every surviving
\* candidate of every dataset of interest exactly once, and the modify times
\* of consecutive elements never descend.
C16_AllSortedByMtime ==
    versions_map["All"].kind = "Ok" =>
        /\ Range(VersionList("All")) = SurvivingCandidates
        /\ Len(VersionList("All")) = Cardinality(SurvivingCandidates)
        /\ IsSortedByMtime(VersionList("All"))

\* C17 as stated: under UniqueMetadata the list of a path is a
\* modify-time-sorted list of the candidates from which exactly the records
\* with the (mtime, size) of the record kept before them are removed.
C17_UniqueMetadataAdjacent ==
    versions_map["UniqueMetadata"].kind = "Ok" =>
        \E sorted \in SortedCandidates :
            VersionList("UniqueMetadata") = DropAdjacent(sorted, <<>>, "metadata")

\* C18 as stated: under UniqueContents the list of a path is a
\* modify-time-sorted list of the candidates from which a record is removed
\* if and only if its contents hash equals that of the record kept before it.
C18_UniqueContentsByHash ==
    versions_map["UniqueContents"].kind = "Ok" =>
        \E sorted \in SortedCandidates :
            VersionList("UniqueContents") = DropAdjacent(sorted, <<>>, "contents")

(***************************************************************************)
(* The reduction of last_snap (SpecLookup)                                 *)
(***************************************************************************)
\* the list of a path when last_snap is applied: after omit_ditto, if set
ListBeforeLastSnap(u, pd) ==
    IF opt_omit_ditto THEN omit_ditto(versions_map[u].all_snap_versions)[pd]
    ELSE versions_map[u].all_snap_versions[pd]

\* what C19 says of one list
LastSnapAsStated(pd, before, after) ==
    /\ Len(after) <= 1
    /\ before # <<>> =>
          /\ opt_last_snap = "Any" => after = <<Last(before)>>
          /\ opt_last_snap = "DittoOnly" =>
                after = IF Last(before).metadata = pd.metadata
                        THEN <<Last(before)>> ELSE <<>>
          /\ opt_last_snap \in {"NoDittoInclusive", "NoDittoExclusive"} =>
                after = IF Last(before).metadata # pd.metadata
                        THEN <<Last(before)>> ELSE <<>>
    /\ before = <<>> =>
          after = IF opt_last_snap \in {"Without", "NoDittoInclusive"}
                  THEN <<pd>> ELSE <<>>

\* C19: with last_snap set, every list of the returned map is reduced as the
\* variant says: Any keeps the last version, DittoOnly keeps it iff its
\* metadata equals the live record's, the NoDitto variants keep it iff it
\* differs, and a list without a snapshot version becomes the live record
\* under Without and NoDittoInclusive and stays empty otherwise.
C19_LastSnapVariants ==
    \A u \in UniquenessModes :
        versions_map[u].kind = "Ok" /\ opt_last_snap # "None" =>
            \A pd \in DOMAIN versions_map[u].map :
                LastSnapAsStated(pd, ListBeforeLastSnap(u, pd), versions_map[u].map[pd])

\* NoDittoInclusive over two paths: one without a snapshot version, whose
\* list becomes the live record, and one whose last version differs from
\* the live record and is kept
C19_Witness ==
    /\ versions_map["All"].kind = "Ok"
    /\ opt_last_snap = "NoDittoInclusive"
    /\ \E pd \in DOMAIN versions_map["All"].map :
          /\ ListBeforeLastSnap("All", pd) = <<>>
          /\ versions_map["All"].map[pd] = <<pd>>
    /\ \E pd \in DOMAIN versions_map["All"].map :
          /\ ListBeforeLastSnap("All", pd) # <<>>
          /\ versions_map["All"].map[pd] = <<Last(ListBeforeLastSnap("All", pd))>>

(***************************************************************************)
(* Specification SpecFilter: is_filter_dir on one directory entry          *)
(***************************************************************************)
\* is_filter_dir for the entry, as the filter closure calls it
IsFilterDir ==
    /\ filtered = Pending
    /\ ~opt_no_filter
    /\ filtered' = [kind |-> "Done", skip |-> is_filter_dir(entry)]
    /\ UNCHANGED entry
    /\ UNCHANGED <<pathVars, delVars, verVars, recVars, mountVars, guardVars, lateVars>>

FilterPaths == {requested_dir, DirX, DirY, DirZfs,
                <<"r", BTRFS_SNAPPER_HIDDEN_DIRECTORY>>}

InitFilter ==
    /\ IdlePaths /\ IdleDeleted /\ IdleVersions /\ IdleMount /\ IdleGuard /\ IdleLate
    /\ live_tree = <<>>
    /\ snap_tree = <<>>
    /\ deleted_mode = "Disabled"
    /\ opt_recursive = TRUE
    /\ opt_no_filter = FALSE
    /\ opt_common_snap_dir \in {<<>>} \cup {<<p>> : p \in FilterPaths}
    /\ vec_of_filter_dirs \in SUBSET {requested_dir, DirX, DirY}
    /\ opt_requested_dir \in FilterPaths
    /\ queue = <<>>
    /\ background = "idle"
    /\ deleted_scope = {}
    /\ rx_item = <<>>
    /\ rx_item_alive = FALSE
    /\ hangup_tx_alive = FALSE
    /\ view = "idle"
    /\ process = "running"
    /\ popped = <<>>
    /\ spawned = <<>>
    /\ at_hangup = Pending
    /\ entry \in FilterPaths
    /\ filtered = Pending

NextFilter == IsFilterDir

SpecFilter == InitFilter /\ [][NextFilter]_vars

IsHiddenSnapshotDir(path) ==
    Last(path) \in {ZFS_HIDDEN_DIRECTORY, BTRFS_SNAPPER_HIDDEN_DIRECTORY}

PhantomItems(chan) == SelectSeq(chan, LAMBDA item : item.is_phantom)

\* enumerate_live read the directory and sent what it had to send
Visited(dir) ==
    /\ dir \in Range(popped)
    /\ get_entries_partitioned(live_tree, dir).kind = "Ok"
    /\ ~SendFailed(dir)

LiveEntriesSent(dir) ==
    LET part == get_entries_partitioned(live_tree, dir)
    IN  \A e \in Range(part.vec_files \o part.vec_dirs) : TimesEmitted(e) = 1

\* C21: in mode Only no live entry is sent and a task is scheduled for every
\* visited directory; in mode Disabled no task is scheduled and no phantom
\* entry is sent; in DepthOfOne and Enabled the live entries of every visited
\* directory are sent and a task is scheduled for it.
C21_DeletedModeGating ==
    /\ deleted_mode = "Only" =>
          /\ LiveItems(rx_item) = <<>>
          /\ \A dir \in Range(popped) : Visited(dir) => dir \in Range(spawned)
    /\ deleted_mode = "Disabled" =>
          /\ spawned = <<>> /\ deleted_scope = {}
          /\ PhantomItems(rx_item) = <<>>
    /\ deleted_mode \in {"DepthOfOne", "Enabled"} =>
          \A dir \in Range(popped) :
              Visited(dir) => LiveEntriesSent(dir) /\ dir \in Range(spawned)

\* mode Only over a tree with files: two directories visited, a task
\* scheduled for each, a phantom entry sent and no live one
C21_Witness ==
    /\ deleted_mode = "Only"
    /\ Len(spawned) >= 2
    /\ \A dir \in DOMAIN live_tree : live_tree[dir].files # <<>>
    /\ PhantomItems(rx_item) # <<>>
    /\ LiveItems(rx_item) = <<>>

(***************************************************************************)
(* C22: how deep the deleted search goes                                   *)
(***************************************************************************)
\* the deleted directories of the live directory, as the deleted lookup
\* yields them
DeletedDirs(dir) ==
    LET dirs == SelectSeq(live_tree[dir].deleted, LAMBDA info : info.file_type = "dir")
    IN  [i \in DOMAIN dirs |-> dirs[i].path]

\* the phantom item is a deleted child of a live directory itself
DirectDeletedChild(item) ==
    \E dir \in DOMAIN live_tree :
        \E info \in Range(live_tree[dir].deleted) : item.path = dir \o <<Last(info.path)>>

\* the deleted task of the directory was scheduled and has run
TaskCompleted(dir) == dir \in Range(spawned) /\ dir \notin deleted_scope

\* every directory of the snapshot at or beneath `deleted_dir` can be read
FullyReadable(deleted_dir) ==
    \A k \in DOMAIN snap_tree : IsPrefix(deleted_dir, k) => snap_tree[k].readable

\* every entry that can be read beneath `deleted_dir` on the snapshot is in
\* the channel as a phantom beneath the live directory `dir`
BeneathEmitted(dir, deleted_dir) ==
    \A k \in DOMAIN snap_tree :
        IsPrefix(deleted_dir, k) /\ snap_tree[k].readable =>
            \A e \in Range(snap_tree[k].entries) :
                \E i \in DOMAIN rx_item :
                    /\ rx_item[i].is_phantom
                    /\ rx_item[i].path = dir \o SubSeq(e, Len(deleted_dir), Len(e))

OnlyDirectDeletedChildren ==
    \A item \in Range(PhantomItems(rx_item)) : DirectDeletedChild(item)

QueuedBy(dir) ==
    IF Visited(dir) THEN get_entries_partitioned(live_tree, dir).vec_dirs ELSE <<>>

\* the directory w was queued before the i-th directory was processed and was
\* not processed by then
WaitingAt(w, i) ==
    /\ \E j \in 1..(i - 1) : w \in Range(QueuedBy(popped[j]))
    /\ \A j \in 1..i : popped[j] # w

\* when the k-th directory is processed, every directory queued while an
\* earlier directory was processed, at whose taking the k-th was waiting, has
\* been processed
DepthFirstAt(k) ==
    \A i \in 1..(k - 1) :
        WaitingAt(popped[k], i) =>
            \A c \in Range(QueuedBy(popped[i])) : \E j \in (i + 1)..(k - 1) : popped[j] = c

\* C23: the walk starts with the requested directory; each further directory
\* processed is the one most recently queued among those not yet processed,
\* the others staying queued in their order; and the order of processing is
\* depth-first: every directory queued while a directory D was processed is
\* processed before any directory that was waiting when D was taken.
C23_LifoDepthFirst ==
    [][popped' # popped =>
          /\ popped = <<>> => popped' = <<requested_dir>>
          /\ popped # <<>> =>
                /\ queue # <<>>
                /\ popped' = Append(popped, queue[Len(queue)])
                /\ Len(queue') >= Len(queue) - 1
                /\ SubSeq(queue', 1, Len(queue) - 1) = SubSeq(queue, 1, Len(queue) - 1)
          /\ DepthFirstAt(Len(popped))']_vars

\* the subdirectory of the last directory queued was processed before the
\* directory queued first
C23_Witness ==
    /\ popped = <<requested_dir, DirX, DirXZ, DirY>>
    /\ WaitingAt(DirY, 2) /\ QueuedBy(DirX) = <<DirXZ>>

(***************************************************************************)
(* C24: the order of the live entries of one directory                     *)
(***************************************************************************)
\* a comes before b in the sequence, both being in it
Before(seq, a, b) ==
    \E i, j \in DOMAIN seq : i < j /\ seq[i] = a /\ seq[j] = b

\* the paths of the live items in the channel, in the order sent
LivePathsSent ==
    LET live == LiveItems(rx_item) IN [i \in DOMAIN live |-> live[i].path]

SnapFileType(k, e) == IF e \in Range(snap_tree[k].dirs) THEN "dir" ELSE "file"

\* the item is the projection of a deleted child of the live directory `dir`
ProjectsDeletedChild(item, dir) ==
    \E info \in Range(live_tree[dir].deleted) :
        /\ item.path = dir \o <<Last(info.path)>>
        /\ item.file_type = info.file_type

\* the item is the projection of an entry beneath a deleted directory of the
\* live directory `dir`: its components below `dir` are those of an entry of
\* the snapshot below the parent of the deleted directory
ProjectsBeneathDeleted(item, dir) ==
    /\ IsPrefix(dir, item.path) /\ Len(item.path) > Len(dir) + 1
    /\ LET relative == SubSeq(item.path, Len(dir) + 1, Len(item.path))
       IN  \E d \in Range(DeletedDirs(dir)) :
               LET e == Front(d) \o relative
                   k == Front(e)
               IN  /\ IsPrefix(d, k)
                   /\ k \in DOMAIN snap_tree
                   /\ e \in Range(snap_tree[k].entries)
                   /\ item.file_type = SnapFileType(k, e)

InsideSnapshotMount(path) == ZFS_HIDDEN_DIRECTORY \in Range(path)

\* C25: every phantom item in the channel is the projection of a deleted
\* child of a live directory L, at L/basename with its file type, or of an
\* entry beneath a deleted directory d of L, at L/name(d)/<its components
\* relative to d> with its file type; none has a path inside a snapshot.
C25_PhantomsArePseudoLive ==
    \A item \in Range(PhantomItems(rx_item)) :
        /\ \E dir \in Range(spawned) :
              ProjectsDeletedChild(item, dir) \/ ProjectsBeneathDeleted(item, dir)
        /\ ~InsideSnapshotMount(item.path)

\* phantoms of a deleted file of DirX, of a deleted directory of DirX, and of
\* a file two levels beneath that directory are in the channel
C25_Witness ==
    /\ [path |-> DirX \o <<"gone">>, file_type |-> "file", is_phantom |-> TRUE]
           \in Range(rx_item)
    /\ [path |-> DirX \o <<"ga">>, file_type |-> "dir", is_phantom |-> TRUE]
           \in Range(rx_item)
    /\ [path |-> DirX \o <<"ga", "gs", "gf">>, file_type |-> "file", is_phantom |-> TRUE]
           \in Range(rx_item)

(***************************************************************************)
(* C26: the deleted tasks and the return of recursive_exec                 *)
(***************************************************************************)
\* C26: when recursive_exec returns, which is when the pool is dropped, every
\* deleted task it scheduled has run; and once it has returned no task is
\* left to run and nothing more is sent to the channel.
C26_ReturnsAfterTasks ==
    [][/\ background' = "done" =>
             \A dir \in Range(spawned') : dir \notin deleted_scope'
       /\ background = "done" => rx_item' = rx_item /\ deleted_scope' = {}]_vars

\* recursive_exec has returned after two deleted tasks that sent phantoms,
\* the second of which ran when the walk was over
C26_Witness ==
    /\ background = "done" /\ process = "running"
    /\ Len(spawned) >= 2
    /\ \A dir \in Range(spawned) :
          \E item \in Range(PhantomItems(rx_item)) : IsPrefix(dir, item.path)
    /\ Last(rx_item).is_phantom

RestoreModes == {"CopyOnly", "CopyAndPreserve", "Overwrite", "OverwriteGuarded", "Restore"}

\* ExecMode::Interactive(InteractiveMode::Restore(RestoreMode::Overwrite(_)))
is_overwrite(mode) == mode \in {"Overwrite", "OverwriteGuarded"}

\* str::to_ascii_uppercase, on the letters the answers are written with
to_ascii_uppercase(str) ==
    [i \in DOMAIN str |->
        CASE str[i] = "y" -> "Y" [] str[i] = "e" -> "E" [] str[i] = "s" -> "S"
          [] str[i] = "n" -> "N" [] str[i] = "o" -> "O" [] str[i] = "t" -> "T"
          [] OTHER -> str[i]]

\* str::to_lowercase, on the letters the answers are written with
to_lowercase(str) ==
    [i \in DOMAIN str |->
        CASE str[i] = "Y" -> "y" [] str[i] = "E" -> "e" [] str[i] = "S" -> "s"
          [] str[i] = "N" -> "n" [] str[i] = "O" -> "o" [] str[i] = "T" -> "t"
          [] OTHER -> str[i]]

\* restore: the match on user_consent.to_ascii_uppercase()
match_user_consent(user_consent) ==
    LET upper == to_ascii_uppercase(user_consent)
    IN  IF upper \in {<<"Y", "E", "S">>, <<"Y">>} THEN "copy"
        ELSE IF upper \in {<<"N", "O">>, <<"N">>} THEN "declined"
        ELSE "again"

\* build_new_file_path: where the copy goes, or the error
build_new_file_path(mode, file) ==
    IF is_overwrite(mode)
    THEN IF file.has_live_version THEN [kind |-> "Ok", to |-> "live version"]
         ELSE [kind |-> "Err", msg |-> "Could not determine a possible live version."]
    ELSE IF ~file.has_metadata
    THEN [kind |-> "Err", msg |-> "Source location does not exist on disk"]
    ELSE IF file.new_path_exists
    THEN [kind |-> "Err", msg |-> "a file with the same path name already exists"]
    ELSE [kind |-> "Ok", to |-> "pwd"]

MaxSelected == 2
MaxConsents == 3

\* exec, lines 355-360: restore of the next selected file, or exit(0) after
\* the last one
next_restore(index) ==
    IF index < Len(snap_path_strings)
    THEN [restore_index |-> index + 1, restore_pc |-> "restore"]
    ELSE [restore_index |-> index, restore_pc |-> "exit0"]

\* restore, lines 363-385: the new path is built; its error ends exec
BuildNewFilePath ==
    /\ restore_pc = "restore" /\ restore_mode # "Restore"
    /\ restore_pc' = IF build_new_file_path(restore_mode,
                                            snap_path_strings[restore_index]).kind = "Ok"
                     THEN "prompt" ELSE "err"
    /\ UNCHANGED <<restore_mode, snap_path_strings, restore_index, consents, copies>>
    /\ UNCHANGED <<pathVars, delVars, verVars, recVars, filterVars, mountVars, guardVars,
                   cmpVars, datasetVars>>

\* restore, lines 388-453: one turn of the loop in which the view returns a
\* selection; on consent the precautionary snapshot is taken in guarded mode
\* and Copy::recursive is called
UserConsent(user_consent) ==
    /\ restore_pc = "prompt" /\ Len(consents) < MaxConsents
    /\ consents' = Append(consents, [file |-> restore_index, answer |-> user_consent])
    /\ LET next == next_restore(restore_index)
           arm == match_user_consent(user_consent)
       IN  \/ /\ arm = "copy" /\ restore_mode = "OverwriteGuarded"
              /\ restore_pc' = "err"
              /\ UNCHANGED <<restore_index, copies>>
           \/ /\ arm = "copy"
              /\ \E copied \in BOOLEAN :
                    /\ copies' = Append(copies, [file |-> restore_index, ok |-> copied])
                    /\ IF copied
                       THEN restore_index' = next.restore_index
                            /\ restore_pc' = next.restore_pc
                       ELSE restore_index' = restore_index
                            /\ restore_pc' = IF restore_mode = "OverwriteGuarded"
                                             THEN "exit1" ELSE "err"
           \/ /\ arm = "declined"
              /\ restore_index' = next.restore_index
              /\ restore_pc' = next.restore_pc
              /\ UNCHANGED copies
           \/ /\ arm = "again"
              /\ UNCHANGED <<restore_index, restore_pc, copies>>
    /\ UNCHANGED <<restore_mode, snap_path_strings>>
    /\ UNCHANGED <<pathVars, delVars, verVars, recVars, filterVars, mountVars, guardVars,
                   cmpVars, datasetVars>>

\* ViewMode::select, lines 684-687: the session is aborted
ConsentAborted ==
    /\ restore_pc = "prompt"
    /\ restore_pc' = "exit0"
    /\ UNCHANGED <<restore_mode, snap_path_strings, restore_index, consents, copies>>
    /\ UNCHANGED <<pathVars, delVars, verVars, recVars, filterVars, mountVars, guardVars,
                   cmpVars, datasetVars>>

\* restore, lines 391-395: the view fails or returns no selection
NoConsentObtained ==
    /\ restore_pc = "prompt"
    /\ restore_pc' = "err"
    /\ UNCHANGED <<restore_mode, snap_path_strings, restore_index, consents, copies>>
    /\ UNCHANGED <<pathVars, delVars, verVars, recVars, filterVars, mountVars, guardVars,
                   cmpVars, datasetVars>>

\* interactive.rs, interactive_restore, lines 120-167: the snapshot file is
\* looked up, the new path under the working directory is built, and the
\* question is written
InteractiveRestoreAsks ==
    /\ restore_pc = "restore" /\ restore_mode = "Restore"
    /\ restore_pc' = IF snap_path_strings[restore_index].has_metadata
                     THEN "stdin" ELSE "err"
    /\ UNCHANGED <<restore_mode, snap_path_strings, restore_index, consents, copies>>
    /\ UNCHANGED <<pathVars, delVars, verVars, recVars, filterVars, mountVars, guardVars,
                   cmpVars, datasetVars>>

\* interactive.rs, interactive_restore, lines 168-182: the answer is read
\* from stdin, std::fs::copy is called on y or yes, and the process exits
InteractiveRestoreReads(input_buffer) ==
    /\ restore_pc = "stdin"
    /\ consents' = Append(consents, [file |-> restore_index, answer |-> input_buffer])
    /\ LET res == to_lowercase(input_buffer)
       IN  IF res = <<"y">> \/ res = <<"y", "e", "s">>
           THEN \E copied \in BOOLEAN :
                   /\ copies' = Append(copies, [file |-> restore_index, ok |-> copied])
                   /\ restore_pc' = IF copied THEN "exit0" ELSE "err"
           ELSE restore_pc' = "exit0" /\ UNCHANGED copies
    /\ UNCHANGED <<restore_mode, snap_path_strings, restore_index>>
    /\ UNCHANGED <<pathVars, delVars, verVars, recVars, filterVars, mountVars, guardVars,
                   cmpVars, datasetVars>>

(***************************************************************************)
(* Specification SpecRestore: the restore of up to MaxSelected files       *)
(***************************************************************************)
SelectedFiles ==
    [has_metadata : BOOLEAN, new_path_exists : BOOLEAN, has_live_version : BOOLEAN]

\* the lines of the preview buffer the view can return, and the short and
\* lower case answers the match also takes
UserAnswers == {<<"Y", "E", "S">>, <<"N", "O">>, <<"t", "o">>,
                <<"Y">>, <<"n">>, <<"y", "e", "s">>}

InitRestore ==
    /\ IdlePaths /\ IdleDeleted /\ IdleVersions /\ IdleRecursive
    /\ IdleFilter /\ IdleMount /\ IdleGuard /\ IdleCmp /\ IdleDataset
    /\ restore_mode \in RestoreModes
    /\ \E n \in 1..MaxSelected :
          /\ snap_path_strings \in [1..n -> SelectedFiles]
          /\ restore_mode = "Restore" => n = 1
    /\ restore_index = 1
    /\ restore_pc = "restore"
    /\ consents = <<>>
    /\ copies = <<>>

NextRestore ==
    \/ BuildNewFilePath
    \/ \E user_consent \in UserAnswers : UserConsent(user_consent)
    \/ ConsentAborted
    \/ NoConsentObtained
    \/ InteractiveRestoreAsks
    \/ \E input_buffer \in UserAnswers : InteractiveRestoreReads(input_buffer)

SpecRestore == InitRestore /\ [][NextRestore]_vars

\* the answers that are YES or Y, and NO or N, whatever the case of the letters
YesAnswers == {<<"Y", "E", "S">>, <<"Y">>, <<"y", "e", "s">>, <<"y">>}
NoAnswers == {<<"N", "O">>, <<"N">>, <<"n", "o">>, <<"n">>}

\* C28 as stated: a copy is made only in the step in which the prompt for
\* that file returned YES or Y; after NO or N nothing is copied and
\* that file is not prompted for again; after any other answer nothing is
\* copied and the prompt for the same file is up again; and when the mode is
\* not overwrite, no prompt is answered for a file whose new path exists.
C28_NoCopyWithoutConsent ==
    [][/\ copies' # copies =>
             /\ consents' # consents
             /\ consents'[Len(consents')] \in [file : {restore_index}, answer : YesAnswers]
             /\ Len(copies') = Len(copies) + 1
             /\ copies'[Len(copies')].file = restore_index
       /\ consents' # consents /\ consents'[Len(consents')].answer \in NoAnswers =>
             /\ copies' = copies
             /\ restore_pc' # "prompt"
       /\ consents' # consents
          /\ consents'[Len(consents')].answer \notin YesAnswers \cup NoAnswers =>
             /\ copies' = copies
             /\ restore_pc' = "prompt" /\ restore_index' = restore_index
       /\ consents' # consents =>
             ~(/\ ~is_overwrite(restore_mode)
               /\ snap_path_strings[restore_index].new_path_exists)]_vars

(***************************************************************************)
(* Specification SpecCompare: CompareContentsContainer::cmp on three       *)
(* containers                                                              *)
(***************************************************************************)
\* the files behind the containers: files of different sizes have different
\* hashes
CompareSizes == {5, 6}
CompareTimes == {100, 200}
ContentsOfSize == {1, 2}
ComparedFiles ==
    {SnapFile(sz, t, 10 * sz + k) : sz \in CompareSizes, t \in CompareTimes,
                                    k \in ContentsOfSize}

\* CompareContentsContainer::from(pathdata) for the i-th file
ContainerOf(i) ==
    PathData(<<"snap", i>>, PathMetadata(containers[i].size, containers[i].modify_time))

\* Ord::cmp is called on every pair of the containers
Compare ==
    /\ orderings = Pending
    /\ LET files == [path \in {<<"snap", i>> : i \in DOMAIN containers} |->
                        containers[path[2]]]
       IN  orderings' = [pair \in (DOMAIN containers) \X (DOMAIN containers) |->
                            CompareContentsContainer_cmp(files, ContainerOf(pair[1]),
                                                         ContainerOf(pair[2]))]
    /\ UNCHANGED containers
    /\ UNCHANGED <<pathVars, delVars, verVars, recVars, filterVars, mountVars, guardVars,
                   restoreVars, datasetVars>>

InitCompare ==
    /\ IdlePaths /\ IdleDeleted /\ IdleVersions /\ IdleRecursive
    /\ IdleFilter /\ IdleMount /\ IdleGuard /\ IdleRestore /\ IdleDataset
    /\ containers \in [1..3 -> ComparedFiles]
    /\ orderings = Pending

NextCompare == Compare

SpecCompare == InitCompare /\ [][NextCompare]_vars

\* Ordering::reverse
Ordering_reverse(o) ==
    IF o = "Less" THEN "Greater" ELSE IF o = "Greater" THEN "Less" ELSE "Equal"

\* C29 as stated: cmp(a, b) is the reverse of cmp(b, a); cmp is transitive,
\* for Equal and for Less or Equal; and a container with the earlier modify
\* time is Less.
C29_ConsistentPreorderByTime ==
    orderings # Pending =>
        /\ \A a, b \in DOMAIN containers :
              orderings[a, b] = Ordering_reverse(orderings[b, a])
        /\ \A a, b, c \in DOMAIN containers :
              /\ orderings[a, b] = "Equal" /\ orderings[b, c] = "Equal"
                    => orderings[a, c] = "Equal"
              /\ orderings[a, b] # "Greater" /\ orderings[b, c] # "Greater"
                    => orderings[a, c] # "Greater"
        /\ \A a, b \in DOMAIN containers :
              containers[a].modify_time < containers[b].modify_time
                  => orderings[a, b] = "Less"

(***************************************************************************)
(* lookup.rs: get_dataset                                                  *)
(***************************************************************************)
\* a line of `zfs list -H -t filesystem -o mountpoint,mounted`
ZfsListLine(mountpoint, mounted) == mountpoint \o <<"\t">> \o mounted

\* str::split('\t').next(): the line up to the first tab
split_tab_next(line) ==
    LET i == str_find(line, <<"\t">>)
    IN  IF i = 0 THEN line ELSE SubSeq(line, 1, i - 1)

\* str::trim: without the white space at both ends
RECURSIVE trim(_)
trim(str) ==
    IF str = <<>> THEN str
    ELSE IF Head(str) \in {" ", "\t"} THEN trim(Tail(str))
    ELSE IF str[Len(str)] \in {" ", "\t"} THEN trim(SubSeq(str, 1, Len(str) - 1))
    ELSE str

\* Iterator::max_by_key(|x| x.len()): the last of the longest elements
max_by_key_len(list) ==
    LET longest == MaxOf({Len(list[i]) : i \in DOMAIN list})
    IN  list[MaxOf({i \in DOMAIN list : Len(list[i]) = longest})]

\* get_dataset, lines 161-189
get_dataset(parent, lines) ==
    LET mounted == SelectSeq(lines, LAMBDA line : str_contains(line, <<"y", "e", "s">>))
        mountpoints == [i \in DOMAIN mounted |-> trim(split_tab_next(mounted[i]))]
        select_potential_mountpoints ==
            SelectSeq(mountpoints, LAMBDA line : str_contains(parent, line))
    IN  IF select_potential_mountpoints = <<>>
        THEN [kind |-> "Err", msg |-> "Could not identify any qualifying dataset."]
        ELSE [kind |-> "Ok", value |-> max_by_key_len(select_potential_mountpoints)]

\* get_dataset is called on the path
GetDataset ==
    /\ best_potential_mountpoint = Pending
    /\ best_potential_mountpoint' = get_dataset(parent_folder, datasets_from_zfs)
    /\ UNCHANGED <<parent_folder, datasets_from_zfs>>
    /\ UNCHANGED <<pathVars, delVars, verVars, recVars, filterVars, mountVars, guardVars,
                   restoreVars, cmpVars>>

(***************************************************************************)
(* Specification SpecDataset: get_dataset on the output of zfs list        *)
(***************************************************************************)
MaxLines == 2
Mountpoints == {<<"/">>, <<"/", "b">>, <<"/", "u">>, <<"/", "u", "/", "b">>}
ZfsListLines ==
    {ZfsListLine(m, mounted) : m \in Mountpoints,
                               mounted \in {<<"y", "e", "s">>, <<"n", "o">>}}
ParentFolders == {<<"/", "u", "/", "b">>, <<"/", "u">>, <<"/", "a", "/", "b">>}

InitDataset ==
    /\ IdlePaths /\ IdleDeleted /\ IdleVersions /\ IdleRecursive
    /\ IdleFilter /\ IdleMount /\ IdleGuard /\ IdleRestore /\ IdleCmp
    /\ parent_folder \in ParentFolders
    /\ \E n \in 0..MaxLines : datasets_from_zfs \in [1..n -> ZfsListLines]
    /\ best_potential_mountpoint = Pending

NextDataset == GetDataset

SpecDataset == InitDataset /\ [][NextDataset]_vars

\* the mount paths of the mounted datasets that are the parent folder or an
\* ancestor of it
MountedAncestors ==
    {m \in Mountpoints :
        /\ ZfsListLine(m, <<"y", "e", "s">>) \in Range(datasets_from_zfs)
        /\ IsPrefix(components(m), components(parent_folder))}

\* C30 as stated: get_dataset returns the longest mount path of a mounted
\* dataset that is an ancestor of the parent folder of the file, and the
\* error when no mounted dataset is an ancestor.
C30_LongestAncestorMount ==
    best_potential_mountpoint # Pending =>
        IF MountedAncestors = {}
        THEN best_potential_mountpoint.kind = "Err"
        ELSE /\ best_potential_mountpoint.kind = "Ok"
             /\ best_potential_mountpoint.value \in MountedAncestors
             /\ \A m \in MountedAncestors : Len(m) <= Len(best_potential_mountpoint.value)

====
